---- MODULE Spec2Model ----
(***************************************************************************)
(* Model of the star catalog generator (src/src/app.ts): six parsers that  *)
(* fill one registry, fk5Index, and cross-reference tables, followed by    *)
(* the writer of the binary catalog.                                       *)
(*                                                                         *)
(* A source text is read one line per step.  A line is a record of the     *)
(* fields the parser cuts out of it: a numeric field is the tuple <<>>     *)
(* when its columns are blank and <<n>> when they hold the number n; a     *)
(* text field is a string; a name is a tuple of one-character strings.     *)
(* Magnitudes are integers in hundredths of a magnitude (6.25 is 625).     *)
(* A star is a record that has exactly the fields the code has assigned,   *)
(* so a field the code never set is absent, as in the JavaScript object.   *)
(* Right ascension, declination and the two proper motions of a line are   *)
(* one token, tagged with the parser that converted it.                    *)
(***************************************************************************)
EXTENDS Integers, Sequences, FiniteSets, TLC

(***************************************************************************)
(* Bounds of the model.                                                    *)
(***************************************************************************)
\* the number of lines of the six source texts together (blank lines, the
\* header rows and the dividers of the deep-sky tables not counted)
MaxLines == 4
\* the length of a name text
MaxNameLen == 4
\* the magnitudes of a given line, in tenths, go from -MaxBelowZero to MaxMag
MaxBelowZero == 30
MaxMag == 320

(***************************************************************************)
(* Program constants.                                                      *)
(***************************************************************************)
bayerRanks ==
  << "alp", "bet", "gam", "del", "eps", "zet", "eta", "the", "iot", "kap",
     "lam", "mu", "nu", "xi", "omi", "pi", "rho", "sig", "tau", "ups",
     "phi", "chi", "psi", "ome" >>

constellationCodes ==
  << "and", "ant", "aps", "aql", "aqr", "ara", "ari", "aur", "boo", "cae",
     "cam", "cap", "car", "cas", "cen", "cep", "cet", "cha", "cir", "cma",
     "cmi", "cnc", "col", "com", "cra", "crb", "crt", "cru", "crv", "cvn",
     "cyg", "del", "dor", "dra", "equ", "eri", "for", "gem", "gru", "her",
     "hor", "hya", "hyi", "ind", "lac", "leo", "lep", "lib", "lmi", "lup",
     "lyn", "lyr", "men", "mic", "mon", "mus", "nor", "oct", "oph", "ori",
     "pav", "peg", "per", "phe", "pic", "psa", "psc", "pup", "pyx", "ret",
     "scl", "sco", "sct", "ser", "sex", "sge", "sgr", "tau", "tel", "tra",
     "tri", "tuc", "uma", "umi", "vel", "vir", "vol", "vul" >>

bscExtras ==
  {8, 87, 340, 1643, 1751, 3732, 4030, 4067, 4531, 5223, 5473, 5714, 5888, 6970, 8076}

magLimitBSC == 600
magLimitHipparcos == 625
AlcyoneFK5 == 139
PleiadesMessier == 45
PleiadesMag == 160
NgcMagLimit == 600
UnknownMag == 100000
GapByte == [item |-> "0xFF"]
MarkerByte == [item |-> "0xFE"]

(***************************************************************************)
(* Characters and strings.                                                 *)
(***************************************************************************)
LowerCase ==
  << "a", "b", "c", "d", "e", "f", "g", "h", "i", "j", "k", "l", "m",
     "n", "o", "p", "q", "r", "s", "t", "u", "v", "w", "x", "y", "z" >>

UpperCase ==
  << "A", "B", "C", "D", "E", "F", "G", "H", "I", "J", "K", "L", "M",
     "N", "O", "P", "Q", "R", "S", "T", "U", "V", "W", "X", "Y", "Z" >>

DigitChars == {"0", "1", "2", "3", "4", "5", "6", "7", "8", "9"}

IsLower(c) == \E i \in 1..26 : LowerCase[i] = c
IsUpper(c) == \E i \in 1..26 : UpperCase[i] = c
IsLetter(c) == IsLower(c) \/ IsUpper(c)
LetterIndex(c) == CHOOSE i \in 1..26 : LowerCase[i] = c \/ UpperCase[i] = c
charToUpper(c) == IF IsLetter(c) THEN UpperCase[LetterIndex(c)] ELSE c
charToLower(c) == IF IsLetter(c) THEN LowerCase[LetterIndex(c)] ELSE c

\* String.prototype.trim on a tuple of characters
RECURSIVE trimStart(_)
trimStart(s) == IF s # <<>> /\ Head(s) = " " THEN trimStart(Tail(s)) ELSE s

RECURSIVE trimEnd(_)
trimEnd(s) ==
  IF s # <<>> /\ s[Len(s)] = " " THEN trimEnd(SubSeq(s, 1, Len(s) - 1)) ELSE s

trim(s) == trimEnd(trimStart(s))

\* String.prototype.indexOf for one character: 0-based, -1 when absent
charIndexOf(s, c) ==
  IF \E i \in 1..Len(s) : s[i] = c
    THEN (CHOOSE i \in 1..Len(s) : s[i] = c /\ \A j \in 1..(i - 1) : s[j] # c) - 1
    ELSE -1

\* Array.prototype.indexOf: 0-based, -1 when absent
indexOf(list, x) ==
  IF \E i \in 1..Len(list) : list[i] = x
    THEN (CHOOSE i \in 1..Len(list) : list[i] = x /\ \A j \in 1..(i - 1) : list[j] # x) - 1
    ELSE -1

\* toMixedCase of @tubular/util: a letter that starts a word is put in upper
\* case, a letter that follows a letter in lower case, anything else is kept
toMixedCase(s) ==
  [i \in 1..Len(s) |->
     IF i > 1 /\ IsLetter(s[i - 1]) THEN charToLower(s[i]) ELSE charToUpper(s[i])]

\* toNumber of @tubular/util on a numeric field: the number, or the default
\* when the field is blank
toNumberOr(field, dflt) == IF field = <<>> THEN dflt ELSE field[1]
toNumber(field) == toNumberOr(field, 0)

\* toNumber on a text field: the texts of the model that are numerals
NumeralValue(txt) ==
  CASE txt = "7" -> 7
    [] txt = "21" -> 21
    [] OTHER -> 0

\* String.prototype.toLowerCase on the text fields of the model
toLowerCase(txt) ==
  CASE txt = "Alp" -> "alp"
    [] txt = "Eps" -> "eps"
    [] txt = "Eta" -> "eta"
    [] txt = "The" -> "the"
    [] txt = "Nu" -> "nu"
    [] txt = "Xi" -> "xi"
    [] txt = "And" -> "and"
    [] txt = "Peg" -> "peg"
    [] txt = "Pet" -> "pet"
    [] OTHER -> txt

\* variant of FK5_NAMES_TO_SKIP: any lowercase letter in the second place
FK5_NAMES_TO_SKIP_AnyLetter(name) ==
  \/ \E i \in 1..Len(name) : name[i] \in DigitChars
  \/ /\ Len(name) >= 2
     /\ IsLower(name[1])
     /\ \/ name[2] = " "
        \/ Len(name) >= 3 /\ IsLower(name[2]) /\ name[3] = " "

\* FK5_NAMES_TO_SKIP.test(name): /\d|(^[a-z][a-km-z]? )/
FK5_NAMES_TO_SKIP(name) ==
  \/ \E i \in 1..Len(name) : name[i] \in DigitChars
  \/ /\ Len(name) >= 2
     /\ IsLower(name[1])
     /\ \/ name[2] = " "
        \/ /\ Len(name) >= 3
           /\ IsLower(name[2])
           /\ name[2] # "l"
           /\ name[3] = " "

(***************************************************************************)
(* Records as JavaScript objects.                                          *)
(***************************************************************************)
Has(obj, f) == f \in DOMAIN obj
Get(obj, f, dflt) == IF f \in DOMAIN obj THEN obj[f] ELSE dflt
Put(obj, f, v) == [x \in (DOMAIN obj) \cup {f} |-> IF x = f THEN v ELSE obj[x]]
Del(tab, k) == [x \in (DOMAIN tab) \ {k} |-> tab[x]]
Empty == [x \in {} |-> 0]

(***************************************************************************)
(* The state: the module-level variables of app.ts (lines 125-146), the    *)
(* control point pc of the main function (lines 698-732), the number of    *)
(* lines read so far, the text and the locals of the bright-star parser    *)
(* (lines 236-245), and the items written to output/stars.dat.  line is   *)
(* what a property needs to know of the texts: a line given in advance,    *)
(* the line just read, or the texts of two runs with the result of the     *)
(* first; it is <<>> otherwise and no parser reads it.  The counters that  *)
(* only feed the console summary (totalFK5, fk5UpdatesFromHIP,             *)
(* bscUpdatesFromHIP, bMag, dMag) are left out: nothing reads them.        *)
(***************************************************************************)
VARIABLES pc, line, linesRead, lineNo, fk5Index, hd2fk5, bscIndex, hd2bsc, bsc2fk5, ngcs,
          totalBSC, totalHIP, totalDSO, highestFK5, highestBSC, highestHIP,
          highestStar, addedStars, pleiades, bscLines, scan, output

vars == << pc, line, linesRead, lineNo, fk5Index, hd2fk5, bscIndex, hd2bsc, bsc2fk5, ngcs,
           totalBSC, totalHIP, totalDSO, highestFK5, highestBSC, highestHIP,
           highestStar, addedStars, pleiades, bscLines, scan, output >>

tables == << fk5Index, hd2fk5, bscIndex, hd2bsc, bsc2fk5, ngcs >>
counters == << totalBSC, totalHIP, totalDSO, highestFK5, highestBSC, highestHIP,
               highestStar, addedStars >>

Max(a, b) == IF a >= b THEN a ELSE b
Min(a, b) == IF a <= b THEN a ELSE b

\* the locals of processYaleBrightStarCatalog before its first loop
scanStart == [lastBSC |-> -1, lastFK5 |-> -1, lastName |-> <<>>, lastMag |-> 99990]

\* the locals of processNgcNames and of processNgcData before their loop
ngcStart == [dividerCount |-> 0]

\* the file written so far: its items, the counters of the writer, its state
noOutput == [items |-> <<>>, total |-> 0, missingFK5 |-> 0, file |-> "none"]

\* lines 125-146 and 698-702: the state of a run before its first line
Start ==
  /\ pc = "processCrossIndex"
  /\ linesRead = 0
  /\ lineNo = 0
  /\ fk5Index = Empty
  /\ hd2fk5 = Empty
  /\ bscIndex = Empty
  /\ hd2bsc = Empty
  /\ bsc2fk5 = Empty
  /\ ngcs = Empty
  /\ totalBSC = 0
  /\ totalHIP = 0
  /\ totalDSO = 0
  /\ highestFK5 = 0
  /\ highestBSC = 0
  /\ highestHIP = 0
  /\ highestStar = 0
  /\ addedStars = 0
  /\ pleiades = <<>>
  /\ bscLines = <<>>
  /\ scan = scanStart
  /\ output = noOutput

Init == line = <<>> /\ Start

(***************************************************************************)
(* Stage 1: processCrossIndex, one line.                                   *)
(***************************************************************************)
\* variant of crossIndexDesignation: the designation is kept when the
\* constellation is not found
crossIndexDesignation_Kept(l) ==
  LET bayerFlamsteed == toLowerCase(l.bf)
      flamsteed == IF bayerFlamsteed # "" THEN NumeralValue(bayerFlamsteed) ELSE 0
      bayerRank == indexOf(bayerRanks, bayerFlamsteed) + 1
      con == toLowerCase(l.con)
  IN  [flamsteed |-> flamsteed,
       bayerRank |-> IF flamsteed = 0 THEN bayerRank ELSE 0,
       subIndex |-> toNumber(l.sub),
       constellation |->
         indexOf(constellationCodes, IF con = "pet" THEN "peg" ELSE con) + 1]

\* lines 184-204: Flamsteed number, Bayer rank, sub-index and constellation
crossIndexDesignation(l) ==
  LET bayerFlamsteed == toLowerCase(l.bf)
      flamsteed == IF bayerFlamsteed # "" THEN NumeralValue(bayerFlamsteed) ELSE 0
      hasRank == bayerFlamsteed # "" /\ flamsteed = 0
      bayerRank == indexOf(bayerRanks, bayerFlamsteed) + 1
      s1 == [flamsteed |-> flamsteed]
      s2 == IF hasRank THEN Put(s1, "bayerRank", bayerRank) ELSE s1
      s3 == IF hasRank /\ bayerRank > 0
              THEN Put(s2, "subIndex", toNumber(l.sub)) ELSE s2
      con == toLowerCase(l.con)
      constellation ==
        indexOf(constellationCodes, IF con = "pet" THEN "peg" ELSE con) + 1
  IN  IF flamsteed # 0 \/ ~hasRank \/ bayerRank # 0
        THEN IF constellation = 0
               THEN [flamsteed |-> 0, bayerRank |-> 0, subIndex |-> 0,
                     constellation |-> 0]
               ELSE Put(s3, "constellation", constellation)
        ELSE s3

\* lines 206-216: the name kept for the star, <<>> when none is kept
crossIndexName(text) ==
  LET name == trim(text)
      pos == charIndexOf(name, ";")
      cut == IF pos >= 0 THEN trim(SubSeq(name, 1, pos)) ELSE name
  IN  IF name # <<>> /\ cut # <<>> /\ ~FK5_NAMES_TO_SKIP(cut)
        THEN toMixedCase(cut)
        ELSE <<>>

\* lines 155-216: the star built from a line
crossIndexStar(l) ==
  LET base == [fk5Num |-> toNumber(l.fk5Num),
               pos |-> [cat |-> "FK5", v |-> l.pos],
               vmag |-> toNumber(l.vmag)]
      d == crossIndexDesignation(l)
      withD == [f \in (DOMAIN base) \cup (DOMAIN d) |->
                  IF f \in DOMAIN d THEN d[f] ELSE base[f]]
      name == crossIndexName(l.name)
  IN  IF name # <<>> THEN Put(withD, "name", name) ELSE withD

\* lines 221-231
pleiadesFrom(star) ==
  [messierNum |-> PleiadesMessier,
   name |-> << "P", "l", "e", "i", "a", "d", "e", "s" >>,
   pos |-> star.pos,
   vmag |-> PleiadesMag]

processCrossIndexLine(l) ==
  LET star == crossIndexStar(l)
      hd == toNumber(l.hd)
  IN  /\ pc = "processCrossIndex"
      /\ lineNo' = lineNo
      /\ highestFK5' = Max(highestFK5, star.fk5Num)
      /\ highestStar' = highestFK5'
      /\ hd2fk5' = IF hd > 0 THEN Put(hd2fk5, hd, star.fk5Num) ELSE hd2fk5
      /\ fk5Index' = Put(fk5Index, star.fk5Num, star)
      /\ pleiades' = IF star.fk5Num = AlcyoneFK5 THEN << pleiadesFrom(star) >>
                     ELSE pleiades
      /\ UNCHANGED << pc, bscIndex, hd2bsc, bsc2fk5, ngcs, totalBSC, totalHIP,
                      totalDSO, highestBSC, highestHIP, addedStars, bscLines,
                      scan, output >>

\* lines 152-153, and the same test in every parser: a blank line is skipped
skipBlankLine ==
  /\ pc \in {"processCrossIndex", "processYaleBrightStarCatalog",
             "processYaleBrightStarCatalog:merge",
             "processYaleBrightStarCatalogNotes", "processHipparcosStarCatalog",
             "processNgcNames", "processNgcData"}
  /\ UNCHANGED vars

\* lines 702-707: the text is exhausted, the bright-star parser starts
endCrossIndex ==
  /\ pc = "processCrossIndex"
  /\ pc' = "processYaleBrightStarCatalog"
  /\ lineNo' = 0
  /\ UNCHANGED << line, linesRead, tables, counters, pleiades, bscLines, scan, output >>

(***************************************************************************)
(* Stage 2: processYaleBrightStarCatalog.  The first loop reads the text   *)
(* (the lines are kept in bscLines for the second loop) and marks the      *)
(* duplicates in bsc2fk5; the second loop merges the lines that are left.  *)
(***************************************************************************)
\* the 10-character name field: Flamsteed number, Bayer letter, sub-index
\* and constellation, each trimmed
BlankName == << "", "", "", "" >>
nameIsBlank(name) == name = BlankName

\* lines 254-257 and 304-307: a primary id above highestFK5 counts as none
fk5InRange(field) ==
  IF toNumber(field) > highestFK5 THEN 0 ELSE toNumber(field)

\* line 266: the line repeats the name of the last line kept
isDuplicateName(currName, lastName) ==
  currName = lastName /\ ~nameIsBlank(currName)

\* variant of dropsCurrent: on equal magnitudes the earlier line is dropped
dropsCurrent_Strict(currMag, lastMag) == currMag > lastMag

\* line 272: of two lines with one name the current one is dropped
dropsCurrent(currMag, lastMag) == currMag >= lastMag

\* lines 247-285, one line of the first loop
scanBSCLine(l) ==
  LET currBSC == l.bscNum
      currName == l.name
      currFK5 == fk5InRange(l.fk5)
      currMag == toNumber(l.vmag)
      marked == Put(bsc2fk5, currBSC, 0)
      dupFK5 == Max(scan.lastFK5, currFK5)
      both == Put(Put(marked, scan.lastBSC, dupFK5), currBSC, dupFK5)
  IN  /\ pc = "processYaleBrightStarCatalog"
      /\ bscLines' = Append(bscLines, l)
      /\ IF l.vmag = <<>>
           THEN /\ bsc2fk5' = marked
                /\ scan' = scan
           ELSE IF isDuplicateName(currName, scan.lastName)
             THEN IF dropsCurrent(currMag, scan.lastMag)
                    THEN /\ bsc2fk5' = Del(both, currBSC)
                         /\ scan' = [scan EXCEPT !.lastFK5 = dupFK5]
                    ELSE /\ bsc2fk5' = Del(both, scan.lastBSC)
                         /\ scan' = [lastBSC |-> currBSC, lastFK5 |-> dupFK5,
                                     lastName |-> currName, lastMag |-> currMag]
             ELSE /\ bsc2fk5' = marked
                  /\ scan' = [lastBSC |-> currBSC, lastFK5 |-> currFK5,
                              lastName |-> currName, lastMag |-> currMag]
      /\ UNCHANGED << pc, lineNo, fk5Index, hd2fk5, bscIndex, hd2bsc, ngcs,
                      counters, pleiades, output >>

\* line 287: the first loop is over, the second starts at the first line
endScanBSC ==
  /\ pc = "processYaleBrightStarCatalog"
  /\ pc' = "processYaleBrightStarCatalog:merge"
  /\ lineNo' = 0
  /\ scan' = scanStart
  /\ UNCHANGED << line, linesRead, tables, counters, pleiades, bscLines, output >>

\* lines 317-318
bscBayerRank(name) == indexOf(bayerRanks, toLowerCase(name[2])) + 1

\* variant of bscQualifies: the upper ranks are accepted up to 6.0 only
bscQualifies_UpperTo6(vmag, bscNum, bayerRank) ==
  \/ vmag <= magLimitBSC
  \/ bscNum \in bscExtras
  \/ /\ bayerRank > 0
     /\ \/ (bayerRank < 14 /\ vmag <= 550)
        \/ (bayerRank < 8 /\ vmag <= 600)

\* lines 320-321: the line qualifies for the catalog
bscQualifies(vmag, bscNum, bayerRank) ==
  \/ vmag <= magLimitBSC
  \/ bscNum \in bscExtras
  \/ /\ bayerRank > 0
     /\ \/ (bayerRank < 14 /\ vmag <= 600)
        \/ (bayerRank < 8 /\ vmag <= 650)

\* variant of bscNeedsNewStar: a primary id in range without a record does
\* not count
bscNeedsNewStar_NoneOrAbove(fk5Num) == fk5Num = 0 \/ fk5Num > highestFK5

\* line 322: the line has no primary star to attach to
bscNeedsNewStar(fk5Num) ==
  fk5Num = 0 \/ fk5Num > highestFK5 \/ fk5Num \notin DOMAIN fk5Index

\* variants of nextStarKey: the counter is not advanced before the key is
\* taken; the counter is advanced twice
nextStarKey_NotAdvanced == highestFK5 + addedStars
nextStarKey_AdvancedTwice == highestFK5 + addedStars + 2

\* lines 323-324 and 459-460: ++addedStars; fk5Num = highestFK5 + addedStars
nextStarKey == highestFK5 + addedStars + 1

\* lines 326-343
bscStar(l) ==
  [vmag |-> toNumber(l.vmag), pos |-> [cat |-> "BSC", v |-> l.pos]]

\* variant of bscAnnotated: the magnitude of the line is written as well
bscAnnotated_TakesMagnitude(star, l) ==
  Put(Put(star, "bscNum", l.bscNum), "vmag", toNumber(l.vmag))

\* lines 352-368: the bright-star fields written on the star of the line
bscAnnotated(star, l) ==
  LET name == l.name
      s1 == Put(star, "bscNum", l.bscNum)
  IN  IF nameIsBlank(name) THEN s1
      ELSE Put(Put(Put(Put(s1,
             "flamsteed", NumeralValue(name[1])),
             "bayerRank", bscBayerRank(name)),
             "subIndex", NumeralValue(name[3])),
             "constellation", indexOf(constellationCodes, toLowerCase(name[4])) + 1)

\* lines 289-370, one line of the second loop
mergeBSCLine ==
  /\ pc = "processYaleBrightStarCatalog:merge"
  /\ lineNo < Len(bscLines)
  /\ lineNo' = lineNo + 1
  /\ LET l == bscLines[lineNo + 1]
         bscNum == l.bscNum
         listed == bscNum \in DOMAIN bsc2fk5
         fk5Num0 == IF l.fk5 = <<>> THEN bsc2fk5[bscNum] ELSE fk5InRange(l.fk5)
         vmag == toNumber(l.vmag)
         add == /\ bscQualifies(vmag, bscNum, bscBayerRank(l.name))
                /\ bscNeedsNewStar(fk5Num0)
         fk5Num == IF add THEN nextStarKey ELSE fk5Num0
         index1 == IF add THEN Put(fk5Index, fk5Num, bscStar(l)) ELSE fk5Index
         attach == fk5Num > 0 /\ fk5Num \in DOMAIN index1
         hd == toNumber(l.hd)
     IN  IF ~listed \/ l.vmag = <<>>
           THEN UNCHANGED << fk5Index, bscIndex, hd2bsc, bsc2fk5, addedStars,
                             totalBSC, highestBSC, highestStar >>
           ELSE /\ addedStars' = IF add THEN addedStars + 1 ELSE addedStars
                /\ totalBSC' = IF add THEN totalBSC + 1 ELSE totalBSC
                /\ highestBSC' = IF add THEN fk5Num ELSE highestBSC
                /\ highestStar' = IF add THEN fk5Num ELSE highestStar
                /\ fk5Index' = IF attach
                                 THEN Put(index1, fk5Num, bscAnnotated(index1[fk5Num], l))
                                 ELSE index1
                /\ bsc2fk5' = IF attach THEN Put(bsc2fk5, bscNum, fk5Num) ELSE bsc2fk5
                /\ bscIndex' = IF attach THEN Put(bscIndex, bscNum, fk5Num) ELSE bscIndex
                /\ hd2bsc' = IF attach /\ hd > 0 THEN Put(hd2bsc, hd, bscNum) ELSE hd2bsc
  /\ UNCHANGED << pc, line, linesRead, hd2fk5, ngcs, totalHIP, totalDSO, highestFK5,
                  highestHIP, pleiades, bscLines, scan, output >>

\* lines 370-371 and 708: the text is exhausted, the notes parser starts
endMergeBSC ==
  /\ pc = "processYaleBrightStarCatalog:merge"
  /\ lineNo = Len(bscLines)
  /\ pc' = "processYaleBrightStarCatalogNotes"
  /\ lineNo' = 0
  /\ bscLines' = <<>>
  /\ UNCHANGED << line, linesRead, tables, counters, pleiades, scan, output >>

(***************************************************************************)
(* The catch of the main function (lines 728-731): an exception thrown by  *)
(* a stage ends the run with exit status 1.                                *)
(***************************************************************************)
abortRun ==
  /\ pc' = "exit(1)"
  /\ lineNo' = 0
  /\ UNCHANGED << tables, counters, pleiades, bscLines, scan, output >>

(***************************************************************************)
(* Stage 3: processYaleBrightStarCatalogNotes, one line.                   *)
(***************************************************************************)
\* the longest prefix of capital letters and spaces
RECURSIVE capitalRun(_)
capitalRun(s) ==
  IF s # <<>> /\ (IsUpper(Head(s)) \/ Head(s) = " ")
    THEN 1 + capitalRun(Tail(s)) ELSE 0

\* line 391: /^([A-Z][A-Z ]+)[.;]/, <<>> when the text does not match
notesName(text) ==
  LET n == capitalRun(text)
  IN  IF /\ n >= 2
         /\ IsUpper(text[1])
         /\ Len(text) > n
         /\ text[n + 1] \in {".", ";"}
        THEN SubSeq(text, 1, n)
        ELSE <<>>

\* lines 377-397
processNotesLine(l) ==
  LET bscNum == l.bscNum
      name == notesName(l.text)
  IN  /\ pc = "processYaleBrightStarCatalogNotes"
      /\ IF (bscNum \in DOMAIN bsc2fk5 /\ bsc2fk5[bscNum] = 0)
            \/ l.code # "1N:" \/ name = <<>>
           THEN /\ lineNo' = lineNo
                /\ UNCHANGED << pc, tables, counters, pleiades, bscLines, scan, output >>
           ELSE IF bscNum \in DOMAIN bsc2fk5 /\ bsc2fk5[bscNum] \in DOMAIN fk5Index
             THEN /\ lineNo' = lineNo
                  /\ fk5Index' = Put(fk5Index, bsc2fk5[bscNum],
                                     Put(fk5Index[bsc2fk5[bscNum]], "name",
                                         toMixedCase(name)))
                  /\ UNCHANGED << pc, hd2fk5, bscIndex, hd2bsc, bsc2fk5, ngcs,
                                  counters, pleiades, bscLines, scan, output >>
             ELSE abortRun

\* variant of endNotes: the deep-sky names come next
endNotes_SkipsAstrometry ==
  /\ pc = "processYaleBrightStarCatalogNotes"
  /\ pc' = "processNgcNames"
  /\ lineNo' = 0
  /\ UNCHANGED << line, linesRead, tables, counters, pleiades, bscLines, scan, output >>

\* lines 399-400 and 710-713
endNotes ==
  /\ pc = "processYaleBrightStarCatalogNotes"
  /\ pc' = "processHipparcosStarCatalog"
  /\ lineNo' = 0
  /\ UNCHANGED << line, linesRead, tables, counters, pleiades, bscLines, scan, output >>

(***************************************************************************)
(* Stage 4: processHipparcosStarCatalog, one line.                         *)
(***************************************************************************)
\* lines 470 and 592: ++totalDSO; the key is highestStar + totalDSO
nextDeepSkyKey == highestStar + totalDSO + 1

\* variant of finishHipparcos: the cluster entry takes the position the
\* star of id 139 has when the entry is added
finishHipparcos_CurrentPosition(index) ==
  /\ pc' = "processNgcNames"
  /\ lineNo' = 0
  /\ scan' = ngcStart
  /\ IF pleiades # <<>>
       THEN /\ totalDSO' = totalDSO + 1
            /\ fk5Index' = Put(index, nextDeepSkyKey,
                               Put(pleiades[1], "pos", index[AlcyoneFK5].pos))
       ELSE /\ totalDSO' = totalDSO
            /\ fk5Index' = index

\* variant of finishHipparcos: the loop goes on with the next row
finishHipparcos_Continues(index) ==
  /\ pc' = pc
  /\ lineNo' = lineNo
  /\ scan' = scan
  /\ totalDSO' = totalDSO
  /\ fk5Index' = index

\* lines 468-472 and 715-718: after the loop the Pleiades item is added
finishHipparcos(index) ==
  /\ pc' = "processNgcNames"
  /\ lineNo' = 0
  /\ scan' = ngcStart
  /\ IF pleiades # <<>>
       THEN /\ totalDSO' = totalDSO + 1
            /\ fk5Index' = Put(index, nextDeepSkyKey, pleiades[1])
       ELSE /\ totalDSO' = totalDSO
            /\ fk5Index' = index

\* lines 431-434: the ids the HD number of the row resolves to
hipResolve(table, hdNum) ==
  IF hdNum > 0 /\ hdNum \in DOMAIN table THEN table[hdNum] ELSE 0

\* variant of hipTarget: the bright-star table is looked at first
hipTarget_BrightStarFirst(fk5Num, bscNum) ==
  IF bscNum > 0 THEN (IF bscNum \in DOMAIN bscIndex THEN bscIndex[bscNum] ELSE -1)
  ELSE IF fk5Num > 0 THEN (IF fk5Num \in DOMAIN fk5Index THEN fk5Num ELSE -1)
  ELSE 0

\* lines 436-450: the key of the star the row updates, 0 for a new star,
\* -1 when the table that is read has no star for the id
hipTarget(fk5Num, bscNum) ==
  IF fk5Num > 0 THEN (IF fk5Num \in DOMAIN fk5Index THEN fk5Num ELSE -1)
  ELSE IF bscNum > 0 THEN (IF bscNum \in DOMAIN bscIndex THEN bscIndex[bscNum] ELSE -1)
  ELSE 0

\* variants of hipUpdated: the magnitude of the row replaces the magnitude of
\* the star; the position is replaced only by a brighter row
hipUpdated_AlwaysReplaces(star, r) ==
  Put(Put(star, "vmag", toNumber(r.vmag)),
      "pos", [cat |-> "HIP", v |-> toNumber(r.pos)])
hipUpdated_PosWhenBrighter(star, r) ==
  IF toNumber(r.vmag) < Get(star, "vmag", toNumber(r.vmag) + 1)
    THEN Put(Put(star, "vmag", toNumber(r.vmag)),
             "pos", [cat |-> "HIP", v |-> toNumber(r.pos)])
    ELSE star

\* lines 452-456
hipUpdated(star, r) ==
  Put(Put(star, "vmag", Min(toNumber(r.vmag), Get(star, "vmag", toNumber(r.vmag)))),
      "pos", [cat |-> "HIP", v |-> toNumber(r.pos)])

\* variant of hipTooFaint: the limit is magnitude 7.0
hipTooFaint_Above7(vmag) == vmag > 700

\* line 444
hipTooFaint(vmag) == vmag > magLimitHipparcos

\* lines 405-466
processHipparcosLine(r) ==
  LET hipNum == toNumber(r.hip)
      hdNum == toNumber(r.hd)
      vmag == toNumber(r.vmag)
      fk5Num == hipResolve(hd2fk5, hdNum)
      bscNum == hipResolve(hd2bsc, hdNum)
      key == hipTarget(fk5Num, bscNum)
      newKey == nextStarKey
  IN  /\ pc = "processHipparcosStarCatalog"
      /\ IF ~r.data \/ hipNum = 0 \/ r.pos = <<>> \/ r.vmag = <<>>
           THEN /\ lineNo' = lineNo
                /\ UNCHANGED << pc, scan, fk5Index, totalDSO, totalHIP, highestHIP,
                                highestStar, addedStars >>
           ELSE IF key # 0
             THEN IF key \in DOMAIN fk5Index
                    THEN /\ lineNo' = lineNo
                         /\ fk5Index' = Put(fk5Index, key, hipUpdated(fk5Index[key], r))
                         /\ UNCHANGED << pc, scan, totalDSO, totalHIP, highestHIP,
                                         highestStar, addedStars >>
                    ELSE /\ pc' = "exit(1)"
                         /\ lineNo' = 0
                         /\ UNCHANGED << scan, fk5Index, totalDSO, totalHIP,
                                         highestHIP, highestStar, addedStars >>
             ELSE IF hipTooFaint(vmag)
               THEN /\ finishHipparcos(fk5Index)
                    /\ UNCHANGED << totalHIP, highestHIP, highestStar, addedStars >>
               ELSE /\ lineNo' = lineNo
                    /\ fk5Index' = Put(fk5Index, newKey,
                                       hipUpdated([hipNum |-> hipNum], r))
                    /\ addedStars' = addedStars + 1
                    /\ totalHIP' = totalHIP + 1
                    /\ highestHIP' = newKey
                    /\ highestStar' = newKey
                    /\ UNCHANGED << pc, scan, totalDSO >>
      /\ UNCHANGED << hd2fk5, bscIndex, hd2bsc, bsc2fk5, ngcs, totalBSC,
                      highestFK5, highestBSC, pleiades, bscLines, output >>

\* the text is exhausted
endHipparcos ==
  /\ pc = "processHipparcosStarCatalog"
  /\ finishHipparcos(fk5Index)
  /\ UNCHANGED << line, linesRead, hd2fk5, bscIndex, hd2bsc, bsc2fk5, ngcs, totalBSC, totalHIP,
                  highestFK5, highestBSC, highestHIP, highestStar, addedStars,
                  pleiades, bscLines, output >>

(***************************************************************************)
(* Stage 5: processNgcNames and processNgcData, one line each.  A line is  *)
(* a divider (it starts with '-') or a row; the rows before the second     *)
(* divider are the header of the table.                                    *)
(***************************************************************************)
DigitSeq == << "0", "1", "2", "3", "4", "5", "6", "7", "8", "9" >>

\* toNumber on characters: the decimal numeral they spell, 0 when they spell none
RECURSIVE digitsValue(_, _)
digitsValue(s, acc) ==
  IF s = <<>> THEN acc
  ELSE digitsValue(Tail(s), 10 * acc + indexOf(DigitSeq, Head(s)))

charsToNumber(s) ==
  LET t == trim(s)
  IN  IF t # <<>> /\ \A i \in 1..Len(t) : t[i] \in DigitChars
        THEN digitsValue(t, 0) ELSE 0

\* lines 499 and 558: the signed catalog number, negative for an IC object
ngcIcNumOf(id) == toNumber(id.num) * (IF id.ic THEN -1 ELSE 1)

GreatNebula ==
  << "G", "r", "e", "a", "t", " ", "N", "e", "b", "u", "l", "a", " ", "i", "n",
     " ", "A", "n", "d", "r", "o", "m", "e", "d", "a" >>
AndromedaGalaxy ==
  << "A", "n", "d", "r", "o", "m", "e", "d", "a", " ", "g", "a", "l", "a", "x", "y" >>

startsWithM(name) == Len(name) >= 2 /\ name[1] = "M" /\ name[2] = " "

\* lines 504-514: the name and the Messier number of a row
ngcRowName(text) ==
  LET name == IF trim(text) = GreatNebula THEN AndromedaGalaxy ELSE trim(text)
  IN  IF startsWithM(name)
        THEN [name |-> <<>>, messierNum |-> charsToNumber(Tail(name))]
        ELSE [name |-> name, messierNum |-> 0]

\* variants of ngcMerged: the Messier number of the later row is stored; a
\* row without a name adds an empty segment
ngcMerged_LastMessier(ngcIcNum, row) ==
  IF ngcIcNum \notin DOMAIN ngcs
    THEN [ngcIcNum |-> ngcIcNum, messierNum |-> row.messierNum, name |-> row.name]
    ELSE LET info == ngcs[ngcIcNum]
             name == IF info.name = <<>> THEN row.name
                     ELSE IF Len(row.name) > 0 THEN info.name \o << "/" >> \o row.name
                     ELSE info.name
         IN  [ngcIcNum |-> ngcIcNum,
              messierNum |-> IF row.messierNum # 0 THEN row.messierNum
                             ELSE info.messierNum,
              name |-> name]
ngcMerged_AlwaysJoins(ngcIcNum, row) ==
  IF ngcIcNum \notin DOMAIN ngcs
    THEN [ngcIcNum |-> ngcIcNum, messierNum |-> row.messierNum, name |-> row.name]
    ELSE LET info == ngcs[ngcIcNum]
         IN  [ngcIcNum |-> ngcIcNum,
              messierNum |-> IF info.messierNum # 0 THEN info.messierNum
                             ELSE row.messierNum,
              name |-> IF info.name = <<>> THEN row.name
                       ELSE info.name \o << "/" >> \o row.name]

\* lines 516-533: the entry of the catalog number after the row
ngcMerged(ngcIcNum, row) ==
  IF ngcIcNum \notin DOMAIN ngcs
    THEN [ngcIcNum |-> ngcIcNum, messierNum |-> row.messierNum, name |-> row.name]
    ELSE LET info == ngcs[ngcIcNum]
             name == IF info.name = <<>> THEN row.name
                     ELSE IF Len(row.name) > 0 THEN info.name \o << "/" >> \o row.name
                     ELSE info.name
             messierNum == IF info.messierNum # 0 /\ row.messierNum # 0
                             THEN info.messierNum
                             ELSE IF row.messierNum # 0 THEN row.messierNum
                             ELSE info.messierNum
         IN  [ngcIcNum |-> ngcIcNum, messierNum |-> messierNum, name |-> name]

\* lines 484-534
processNgcNamesLine(l) ==
  /\ pc = "processNgcNames"
  /\ IF l.divider
       THEN /\ scan' = [dividerCount |-> Min(scan.dividerCount + 1, 2)]
            /\ lineNo' = lineNo
            /\ ngcs' = ngcs
       ELSE /\ scan.dividerCount = 2
            /\ scan' = scan
            /\ lineNo' = lineNo
            /\ ngcs' = IF l.id = <<>> \/ ngcIcNumOf(l.id[1]) = 0 THEN ngcs
                       ELSE Put(ngcs, ngcIcNumOf(l.id[1]),
                                ngcMerged(ngcIcNumOf(l.id[1]), ngcRowName(l.name)))
  /\ UNCHANGED << pc, fk5Index, hd2fk5, bscIndex, hd2bsc, bsc2fk5, counters,
                  pleiades, bscLines, output >>

\* lines 489-490 and 551-552: a row of the header is skipped
skipNgcHeaderRow ==
  /\ pc \in {"processNgcNames", "processNgcData"}
  /\ scan.dividerCount < 2
  /\ UNCHANGED vars

\* lines 536-537 and 720-723
endNgcNames ==
  /\ pc = "processNgcNames"
  /\ pc' = "processNgcData"
  /\ lineNo' = 0
  /\ scan' = ngcStart
  /\ UNCHANGED << line, linesRead, tables, counters, pleiades, bscLines, output >>

\* variant of ngcSkipped: a row at magnitude 6.0 is not kept either
ngcSkipped_AtLimit(ngcIcNum, vmag) == ngcIcNum \notin DOMAIN ngcs /\ vmag >= NgcMagLimit

\* line 561: the row is not kept
ngcSkipped(ngcIcNum, vmag) == ngcIcNum \notin DOMAIN ngcs /\ vmag > NgcMagLimit

\* lines 564-589
ngcStar(l) ==
  LET ngcIcNum == ngcIcNumOf(l.id[1])
  IN  [fk5Num |-> 0, bscNum |-> 0, ngcIcNum |-> ngcIcNum,
       vmag |-> toNumberOr(l.vmag, UnknownMag),
       messierNum |-> IF ngcIcNum \in DOMAIN ngcs THEN ngcs[ngcIcNum].messierNum ELSE 0,
       name |-> IF ngcIcNum \in DOMAIN ngcs THEN ngcs[ngcIcNum].name ELSE <<>>,
       pos |-> [cat |-> "NGC", v |-> toNumber(l.pos)],
       constellation |-> indexOf(constellationCodes, toLowerCase(l.con)) + 1]

\* lines 546-593; a row cut short has no magnitude, coordinates or
\* constellation field, and reading its coordinates throws
processNgcDataLine(l) ==
  /\ pc = "processNgcData"
  /\ IF l.divider
       THEN /\ scan' = [dividerCount |-> Min(scan.dividerCount + 1, 2)]
            /\ lineNo' = lineNo
            /\ UNCHANGED << pc, fk5Index, totalDSO >>
       ELSE /\ scan.dividerCount = 2
            /\ IF ngcSkipped(ngcIcNumOf(l.id[1]), toNumberOr(l.vmag, UnknownMag))
                 THEN /\ lineNo' = lineNo
                      /\ UNCHANGED << pc, scan, fk5Index, totalDSO >>
                 ELSE IF l.short
                   THEN /\ pc' = "exit(1)"
                        /\ lineNo' = 0
                        /\ UNCHANGED << scan, fk5Index, totalDSO >>
                   ELSE /\ lineNo' = lineNo
                        /\ totalDSO' = totalDSO + 1
                        /\ fk5Index' = Put(fk5Index, nextDeepSkyKey, ngcStar(l))
                        /\ UNCHANGED << pc, scan >>
  /\ UNCHANGED << hd2fk5, bscIndex, hd2bsc, bsc2fk5, ngcs, totalBSC, totalHIP,
                  highestFK5, highestBSC, highestHIP, highestStar, addedStars,
                  pleiades, bscLines, output >>

\* lines 594 and 725
endNgcData ==
  /\ pc = "processNgcData"
  /\ pc' = "writeStarCatalog"
  /\ lineNo' = 0
  /\ scan' = scanStart
  /\ UNCHANGED << line, linesRead, tables, counters, pleiades, bscLines, output >>

(***************************************************************************)
(* Stage 6: writeStarCatalog.  The file is a sequence of items: the gap    *)
(* byte 0xFF, the marker byte 0xFE, or the bytes of one star, kept as a    *)
(* record that also names the key the loop was at.                         *)
(***************************************************************************)
\* line 612
isGapKey(i) == i \notin DOMAIN fk5Index /\ i <= highestFK5

\* variant of markersBefore: the second marker is written when the
\* astrometry stage did add stars
markersBefore_SecondWhenHIP(i) ==
  IF i = highestFK5 + 1 \/ (highestBSC > 0 /\ i = highestBSC + 1) \/ i = highestStar + 1
    THEN IF i = highestStar + 1 /\ highestHIP # 0
           THEN << MarkerByte, MarkerByte >>
           ELSE << MarkerByte >>
    ELSE <<>>

\* lines 626-635: the marker bytes written before the item of key i
markersBefore(i) ==
  IF i = highestFK5 + 1 \/ (highestBSC > 0 /\ i = highestBSC + 1) \/ i = highestStar + 1
    THEN IF i = highestStar + 1 /\ highestHIP = 0
           THEN << MarkerByte, MarkerByte >>
           ELSE << MarkerByte >>
    ELSE <<>>

\* variant of compressedMag: no upper limit
compressedMag_NoCeiling(vmag) == Max((vmag + 205) \div 10, 0)

\* lines 658-659, on hundredths of a magnitude
compressedMag(vmag) == Min(Max((vmag + 205) \div 10, 0), 255)

\* lines 662-671: the bytes that follow the magnitude byte
trailerOf(i, star) ==
  IF i > highestStar
    THEN [kind |-> "ngcIcNum+messierNum", a |-> Get(star, "ngcIcNum", 0),
          b |-> Get(star, "messierNum", 0)]
  ELSE IF highestBSC > 0 /\ i > highestBSC
    THEN [kind |-> "hipNum", a |-> Get(star, "hipNum", 0) \div 65536,
          b |-> Get(star, "hipNum", 0) % 65536]
  ELSE IF i > highestFK5
    THEN [kind |-> "bscNum", a |-> Get(star, "bscNum", 0), b |-> 0]
  ELSE [kind |-> "none", a |-> 0, b |-> 0]

\* lines 642-679: the bytes of one star
starItem(i, star) ==
  [item |-> "star",
   key |-> i,
   flamsteed |-> Get(star, "flamsteed", 0),
   bayerRank |-> Get(star, "bayerRank", 0),
   subIndex |-> Get(star, "subIndex", 0),
   constellation |-> Get(star, "constellation", 0),
   pos |-> star.pos,
   mag |-> compressedMag(star.vmag),
   trailer |-> trailerOf(i, star),
   name |-> Get(star, "name", <<>>)]

\* variant of gapBytes: one byte for a run of gaps
gapBytes_OnePerRun(n) == [j \in 1..Min(n, 1) |-> GapByte]

\* lines 620-621
gapBytes(n) == [j \in 1..n |-> GapByte]

\* lines 612-616: the first key from i on that is not counted as a gap
firstKept(i) ==
  CHOOSE j \in i..Max(i, highestFK5 + 1) :
    ~isGapKey(j) /\ \A k \in i..(j - 1) : isGapKey(k)

\* lines 609-682: the loop from key i on; the run of gaps in front of a key is
\* taken in one step
RECURSIVE writeFrom(_, _)
writeFrom(i, out) ==
  LET k == firstKept(i)
      gapSize == k - i
      flushed == [out EXCEPT !.items = @ \o gapBytes(gapSize) \o markersBefore(k),
                             !.missingFK5 = @ + gapSize]
  IN  IF k > highestStar + totalDSO
        THEN [out EXCEPT !.file = "closed"]
      ELSE IF k \notin DOMAIN fk5Index
        THEN [flushed EXCEPT !.file = "open"]
      ELSE writeFrom(k + 1,
             [flushed EXCEPT !.items = Append(@, starItem(k, fk5Index[k])),
                             !.total = @ + 1])

\* lines 596-686 and 725-731: the file is written; a failure ends the run
\* with exit status 1, otherwise the summary is printed
writeStarCatalog ==
  /\ pc = "writeStarCatalog"
  /\ output' = writeFrom(1, noOutput)
  /\ pc' = IF output'.file = "closed" THEN "done" ELSE "exit(1)"
  /\ UNCHANGED << line, linesRead, lineNo, tables, counters, pleiades, bscLines, scan >>

(***************************************************************************)
(* The source texts.  Every catalog gives each of its own ids on one line  *)
(* only; the order of the lines is free.                                   *)
(***************************************************************************)
FK5Lines ==
  [fk5Num : {<<1>>, <<2>>, <<3>>, <<AlcyoneFK5>>}, hd : {<<>>, <<1>>},
   vmag : {<<300>>}, pos : {1}, bf : {""}, sub : {<<>>}, con : {""},
   name : {<<>>}]

BSCLines ==
  [bscNum : {1, 2}, name : {BlankName}, fk5 : {<<>>, <<1>>}, hd : {<<>>, <<2>>},
   vmag : {<<500>>, <<700>>}, pos : {1}]

NotesLines ==
  [bscNum : {1, 2}, code : {"1N:"}, text : {<< "A", "B", "." >>}]

HIPLines ==
  [data : {TRUE}, hip : {<<7>>}, hd : {<<>>, <<1>>, <<2>>},
   vmag : {<<200>>, <<700>>}, pos : {<<2>>}]

NGCNameLines ==
  [divider : {TRUE, FALSE}, id : {<< [ic |-> FALSE, num |-> <<1>>] >>},
   name : {<< "M", " ", "1" >>}]

NGCDataLines ==
  [divider : {TRUE, FALSE}, id : {<< [ic |-> FALSE, num |-> <<1>>] >>,
                                  << [ic |-> TRUE, num |-> <<1>>] >>},
   vmag : {<<>>, <<500>>}, pos : {<<3>>}, con : {"And"}, short : {FALSE}]

freshFK5(l) == toNumber(l.fk5Num) \notin DOMAIN fk5Index
freshBSC(l) == \A i \in 1..Len(bscLines) : bscLines[i].bscNum # l.bscNum

\* one more line of the running source text
readLine ==
  /\ linesRead < MaxLines
  /\ linesRead' = linesRead + 1
  /\ UNCHANGED line

readCrossIndex ==
  readLine /\ \E l \in FK5Lines : freshFK5(l) /\ processCrossIndexLine(l)
readBSC ==
  readLine /\ \E l \in BSCLines : freshBSC(l) /\ scanBSCLine(l)
readNotes ==
  readLine /\ \E l \in NotesLines : processNotesLine(l)
readHipparcos ==
  readLine /\ \E r \in HIPLines : processHipparcosLine(r)
readNgcNames ==
  \E l \in NGCNameLines :
    /\ IF l.divider THEN UNCHANGED << line, linesRead >> ELSE readLine
    /\ processNgcNamesLine(l)
readNgcData ==
  \E l \in NGCDataLines :
    /\ IF l.divider THEN UNCHANGED << line, linesRead >> ELSE readLine
    /\ processNgcDataLine(l)

Next ==
  \/ skipBlankLine
  \/ readCrossIndex
  \/ endCrossIndex
  \/ readBSC
  \/ endScanBSC
  \/ mergeBSCLine
  \/ endMergeBSC
  \/ readNotes
  \/ endNotes
  \/ readHipparcos
  \/ endHipparcos
  \/ readNgcNames
  \/ skipNgcHeaderRow
  \/ endNgcNames
  \/ readNgcData
  \/ endNgcData
  \/ writeStarCatalog

Spec == Init /\ [][Next]_vars

(***************************************************************************)
(* Properties of the registry and of the file.                             *)
(***************************************************************************)
AfterStages == pc \in {"writeStarCatalog", "done"}

\* the stage that made a record, read off the fields the stage gives it
origin(star) ==
  IF Has(star, "messierNum") THEN "deep-sky"
  ELSE IF Has(star, "hipNum") THEN "astrometry"
  ELSE IF Has(star, "fk5Num") THEN "primary"
  ELSE "bright-star"

\* the keys a step adds to the registry
newKeys == (DOMAIN fk5Index') \ (DOMAIN fk5Index)

\* the four blocks of the claim, by the variables that bound them
InBlocks ==
  \A k \in DOMAIN fk5Index :
    LET o == origin(fk5Index[k])
    IN  /\ o = "primary" => 1 <= k /\ k <= highestFK5
        /\ o = "bright-star" => highestFK5 < k /\ k <= highestBSC
        /\ o = "astrometry" => highestBSC < k /\ k <= highestHIP
        /\ o = "deep-sky" => highestStar < k /\ k <= highestStar + totalDSO

\* C1 as stated: after stages 1-5 the keys lie in the four blocks, and every
\* key a step assigns, in any stage, is greater than every key assigned before
C1_AsStated ==
  /\ [](AfterStages => InBlocks)
  /\ [][\A k \in newKeys : \A j \in DOMAIN fk5Index : k > j]_vars

\* C1: after stages 1-5 the keys lie in the four blocks, every key the
\* bright-star, astrometry and deep-sky stages assign is greater than every key
\* assigned before it, by the same stage or an earlier one, and a key of the
\* primary loader is the id of its line, at most highestFK5
C1_BlockOrder ==
  /\ [](AfterStages => InBlocks)
  /\ [][/\ pc # "processCrossIndex" =>
             \A k \in newKeys : \A j \in DOMAIN fk5Index : k > j
        /\ pc = "processCrossIndex" =>
             \A k \in newKeys : k <= highestFK5' /\ fk5Index'[k].fk5Num = k]_vars

C1_Witness ==
  /\ pc = "done"
  /\ totalBSC > 0 /\ totalHIP > 0 /\ totalDSO > 0
  /\ \E k \in 1..highestFK5 : k \notin DOMAIN fk5Index

\* C2: after stages 1-5 every key above highestFK5 up to highestStar + totalDSO
\* has a record, and the writer never stops at a missing record
C2_DenseAboveFK5 ==
  /\ AfterStages =>
       \A k \in (highestFK5 + 1)..(highestStar + totalDSO) : k \in DOMAIN fk5Index
  /\ output.file # "open"

C2_Witness ==
  /\ pc = "done"
  /\ totalBSC > 0 /\ totalHIP > 0 /\ totalDSO > 0
  /\ highestFK5 > 1 /\ 1 \notin DOMAIN fk5Index
  /\ output.file = "closed"

isMarker(x) == x.item = "0xFE"
isGap(x) == x.item = "0xFF"
isStar(x) == x.item = "star"
notMarker(x) == ~isMarker(x)

\* the file without its marker bytes: one item for each key
keyItems == SelectSeq(output.items, notMarker)

\* C3: the file holds one 0xFF for each key of 1..highestFK5 without a record,
\* at the position of that key, none for a key above highestFK5, and the gap
\* bytes and the primary records written are highestFK5 together
C3_GapBytes ==
  pc = "done" =>
    /\ Len(keyItems) = highestStar + totalDSO
    /\ \A k \in 1..Len(keyItems) :
         /\ isGap(keyItems[k]) <=> k \notin DOMAIN fk5Index
         /\ isGap(keyItems[k]) => k <= highestFK5
         /\ isStar(keyItems[k]) => keyItems[k].key = k
    /\ Cardinality({k \in 1..Len(keyItems) : isGap(keyItems[k])})
         + Cardinality({k \in 1..Len(keyItems) : isStar(keyItems[k]) /\ k <= highestFK5})
       = highestFK5
    /\ output.missingFK5 = Cardinality({k \in 1..Len(keyItems) : isGap(keyItems[k])})

C3_Witness ==
  /\ pc = "done"
  /\ {1, 3} \subseteq DOMAIN fk5Index /\ 2 \notin DOMAIN fk5Index
  /\ Len(keyItems) >= 4
  /\ isGap(keyItems[2]) /\ isStar(keyItems[1]) /\ isStar(keyItems[3])

\* the number of marker bytes that end right before position p of the file
markersUpTo(p) ==
  CHOOSE n \in 0..(p - 1) :
    /\ \A j \in 1..n : isMarker(output.items[p - j])
    /\ (n < p - 1 => ~isMarker(output.items[p - n - 1]))

\* the last keys of the primary block, of the bright-star additions when
\* there are any, and of all stars
blockEnds ==
  {highestFK5, highestFK5 + totalBSC + totalHIP}
    \cup (IF totalBSC > 0 THEN {highestFK5 + totalBSC} ELSE {})

\* C4: one 0xFE stands right before the record that follows a block end, a
\* second one at the end of all stars exactly when the astrometry stage added
\* nothing, and no 0xFE stands anywhere else
C4_Markers ==
  pc = "done" =>
    \A p \in 1..Len(output.items) :
      LET x == output.items[p]
      IN  /\ isStar(x) =>
               markersUpTo(p) =
                 (IF x.key - 1 \in blockEnds THEN 1 ELSE 0)
                 + (IF x.key - 1 = highestFK5 + totalBSC + totalHIP /\ totalHIP = 0
                      THEN 1 ELSE 0)
          /\ isGap(x) => markersUpTo(p) = 0
          /\ isMarker(x) => p < Len(output.items)

C4_Witness ==
  /\ pc = "done"
  /\ totalBSC > 0 /\ totalHIP = 0 /\ totalDSO > 0
  /\ \E p \in 3..Len(output.items) :
       /\ isStar(output.items[p]) /\ output.items[p].key = highestStar + 1
       /\ markersUpTo(p) = 2

\* the trailer of the block a key lies in, the blocks counted off by the
\* numbers of stars the stages added
blockTrailer(k) ==
  IF k > highestFK5 + totalBSC + totalHIP THEN "ngcIcNum+messierNum"
  ELSE IF k > highestFK5 + totalBSC THEN "hipNum"
  ELSE IF k > highestFK5 THEN "bscNum"
  ELSE "none"

\* C5: every record written carries the trailer of the block of its key, also
\* when the bright-star block is empty
C5_Trailers ==
  pc = "done" =>
    \A p \in 1..Len(output.items) :
      isStar(output.items[p]) =>
        output.items[p].trailer.kind = blockTrailer(output.items[p].key)

(***************************************************************************)
(* A run on a given line of the primary catalog: the line is drawn before  *)
(* the run starts and is the only line of the primary catalog.             *)
(***************************************************************************)
readGivenCrossIndexLine ==
  /\ line # <<>>
  /\ linesRead = 0
  /\ linesRead' = 1
  /\ UNCHANGED line
  /\ processCrossIndexLine(line)

\* the given line has been read
givenLineRead == line # <<>> /\ linesRead >= 1

\* a line of the primary catalog with nothing but its id, magnitude and name
plainFK5Line(vmag, name) ==
  [fk5Num |-> <<1>>, hd |-> <<>>, vmag |-> vmag, pos |-> 1, bf |-> "",
   sub |-> <<>>, con |-> "", name |-> name]

\* the magnitudes in tenths from -MaxBelowZero to MaxMag, and 1000.0
MagLines ==
  {plainFK5Line(<<10 * t>>, <<>>) : t \in (0 - MaxBelowZero)..MaxMag}
    \cup {plainFK5Line(<<UnknownMag>>, <<>>)}

InitMag == line \in MagLines /\ Start

NextMag ==
  \/ readGivenCrossIndexLine
  \/ endCrossIndex
  \/ endScanBSC
  \/ endMergeBSC
  \/ endNotes
  \/ endHipparcos
  \/ readNgcNames
  \/ endNgcNames
  \/ readNgcData
  \/ endNgcData
  \/ writeStarCatalog

SpecMag == InitMag /\ [][NextMag]_vars

\* clamp(round((vmag + 2.0) * 10), 0, 255) for a magnitude of t tenths
clampedTenths(t) ==
  IF t + 20 < 0 THEN 0 ELSE IF t + 20 > 255 THEN 255 ELSE t + 20

\* C6: the magnitude byte of every record written is in 0..255 and, for a
\* magnitude in tenths, is clamp(round((vmag + 2.0) * 10), 0, 255): 5 for -1.5,
\* 255 from 23.5 on (30.0 and 1000.0 among them), 0 up to -2.0
C6_MagnitudeByte ==
  pc = "done" =>
    \A p \in 1..Len(output.items) :
      LET x == output.items[p]
          vmag == fk5Index[x.key].vmag
      IN  isStar(x) =>
            /\ x.mag \in 0..255
            /\ vmag % 10 = 0 => x.mag = clampedTenths(vmag \div 10)
            /\ vmag = -150 => x.mag = 5
            /\ vmag >= 2350 => x.mag = 255
            /\ vmag \in {3000, UnknownMag} => x.mag = 255
            /\ vmag <= -200 => x.mag = 0

C6_Witness ==
  /\ pc = "done"
  /\ \E p \in 1..Len(output.items) :
       /\ isStar(output.items[p])
       /\ fk5Index[output.items[p].key].vmag = 3000
       /\ output.items[p].mag = 255
  /\ \E q \in 1..Len(output.items) :
       /\ isStar(output.items[q])
       /\ origin(fk5Index[output.items[q].key]) = "deep-sky"
       /\ fk5Index[output.items[q].key].vmag = UnknownMag
       /\ output.items[q].mag = 255

(***************************************************************************)
(* The names of the primary catalog: every text of at most MaxNameLen      *)
(* characters over NameChars, and the three names of the documentation.    *)
(***************************************************************************)
NameChars == {"a", "l", "B", " ", "1", ";"}

Persei12 == << "1", "2", " ", "P", "e", "r", "s", "e", "i" >>
PerseiB == << "b", " ", "P", "e", "r", "s", "e", "i" >>
Polaris == << "P", "o", "l", "a", "r", "i", "s" >>

NameTexts ==
  UNION {[1..n -> NameChars] : n \in 0..MaxNameLen}
    \cup {Persei12, PerseiB, Polaris}

NameLines == {plainFK5Line(<<300>>, name) : name \in NameTexts}

InitName == line \in NameLines /\ Start

NextName ==
  \/ readGivenCrossIndexLine
  \/ endCrossIndex

SpecName == InitName /\ [][NextName]_vars

\* the name text of the given line up to its first semicolon, without the
\* blanks around it
cutName ==
  LET text == trim(line.name)
      semis == {i \in 1..Len(text) : text[i] = ";"}
      first == IF semis = {} THEN Len(text) + 1
               ELSE CHOOSE i \in semis : \A j \in semis : i <= j
  IN  trim(SubSeq(text, 1, first - 1))

hasDigit(n) == \E i \in 1..Len(n) : n[i] \in DigitChars

\* one lowercase letter, optionally one more lowercase letter, which is not
\* an "l" when exceptL holds, then a space
shortPrefix(n, exceptL) ==
  /\ Len(n) >= 2
  /\ IsLower(n[1])
  /\ \/ n[2] = " "
     \/ Len(n) >= 3 /\ IsLower(n[2]) /\ (exceptL => n[2] # "l") /\ n[3] = " "

rejectedName(n, exceptL) == hasDigit(n) \/ shortPrefix(n, exceptL)

\* stored is the text n in title case
inTitleCase(stored, n) ==
  /\ Len(stored) = Len(n)
  /\ \A i \in 1..Len(n) :
       /\ charToLower(stored[i]) = charToLower(n[i])
       /\ IsLetter(n[i]) =>
            (IsUpper(stored[i]) <=> (i = 1 \/ ~IsLetter(n[i - 1])))

\* the record of the given line stores no name when the cut name is rejected
\* or empty, and the cut name in title case otherwise
namesStored(exceptL) ==
  givenLineRead =>
    LET star == fk5Index[1]
    IN  /\ IF cutName = <<>> \/ rejectedName(cutName, exceptL)
             THEN ~Has(star, "name")
             ELSE Has(star, "name") /\ inTitleCase(star.name, cutName)
        /\ line.name \in {Persei12, PerseiB} => ~Has(star, "name")
        /\ line.name = Polaris => Has(star, "name") /\ star.name = Polaris

\* C10 as stated: no name is stored for a name text that, cut at its first
\* semicolon, holds a digit or begins with a lowercase letter, optionally one
\* more lowercase letter of any kind, and a space; every other non-empty name
\* is stored in title case
C10_AsStated == namesStored(FALSE)

\* C10: no name is stored for a name text that, cut at its first semicolon,
\* holds a digit or begins with a lowercase letter, optionally one more
\* lowercase letter other than "l", and a space; every other non-empty name is
\* stored in title case
C10_NameFilter == namesStored(TRUE)

C10_Witness ==
  /\ givenLineRead
  /\ line.name = << "a", "l", " ", "B" >>
  /\ Has(fk5Index[1], "name")
  /\ fk5Index[1].name = << "A", "l", " ", "B" >>

(***************************************************************************)
(* The first loop of the bright-star parser on texts whose lines repeat a  *)
(* name.                                                                   *)
(***************************************************************************)
FewFK5Lines ==
  [fk5Num : {<<1>>, <<2>>}, hd : {<<>>}, vmag : {<<300>>}, pos : {1}, bf : {""},
   sub : {<<>>}, con : {""}, name : {<<>>}]

EpsAnd == << "", "Eps", "", "And" >>

DedupBSCLines ==
  [bscNum : {1, 2, 3}, name : {BlankName, EpsAnd}, fk5 : {<<>>, <<1>>, <<2>>},
   hd : {<<>>}, vmag : {<<>>, <<300>>, <<450>>}, pos : {1}]

readFewCrossIndex ==
  readLine /\ \E l \in FewFK5Lines : freshFK5(l) /\ processCrossIndexLine(l)
readDedupBSC ==
  readLine /\ \E l \in DedupBSCLines : freshBSC(l) /\ scanBSCLine(l)

NextDedup ==
  \/ readFewCrossIndex
  \/ endCrossIndex
  \/ readDedupBSC
  \/ endScanBSC

SpecDedup == Init /\ [][NextDedup]_vars

\* the first loop is running or has just ended
inFirstLoop ==
  \/ pc = "processYaleBrightStarCatalog"
  \/ pc = "processYaleBrightStarCatalog:merge" /\ lineNo = 0

hasMagnitude(l) == l.vmag # <<>>

\* the lines read that have a magnitude, in the order of the text
withMag == SelectSeq(bscLines, hasMagnitude)

\* the lines a..b of withMag are a run: two lines or more that share a
\* non-blank name, with no line of that name right before or right after
isRun(a, b) ==
  /\ a < b
  /\ ~nameIsBlank(withMag[a].name)
  /\ \A i \in a..b : withMag[i].name = withMag[a].name
  /\ a > 1 => withMag[a - 1].name # withMag[a].name
  /\ b < Len(withMag) => withMag[b + 1].name # withMag[a].name

\* the line of the run with the smallest magnitude, the earliest of them
brightest(a, b) ==
  CHOOSE i \in a..b :
    \A j \in a..b :
      \/ withMag[i].vmag[1] < withMag[j].vmag[1]
      \/ withMag[i].vmag[1] = withMag[j].vmag[1] /\ i <= j

\* the primary id of a line: the number of its field, none (0) when the field
\* is blank or above highestFK5
primaryId(l) ==
  IF l.fk5 = <<>> \/ l.fk5[1] > highestFK5 THEN 0 ELSE l.fk5[1]

maxPrimaryId(a, b) ==
  CHOOSE m \in {primaryId(withMag[i]) : i \in a..b} :
    \A i \in a..b : primaryId(withMag[i]) <= m

\* C7: of every run of lines with a magnitude that share a non-blank name,
\* one line is left in bsc2fk5, the one with the smallest magnitude and the
\* earliest of these, and its entry is the greatest primary id of the run
C7_Dedup ==
  inFirstLoop =>
    \A a \in 1..Len(withMag) : \A b \in 1..Len(withMag) :
      isRun(a, b) =>
        /\ \A i \in a..b :
             withMag[i].bscNum \in DOMAIN bsc2fk5 <=> i = brightest(a, b)
        /\ bsc2fk5[withMag[brightest(a, b)].bscNum] = maxPrimaryId(a, b)

\* a run of three: the middle line survives a brighter-or-equal test against
\* both neighbours and carries the id of a dropped line
C7_Witness ==
  /\ pc = "processYaleBrightStarCatalog:merge" /\ lineNo = 0
  /\ Len(withMag) = 3
  /\ isRun(1, 3)
  /\ brightest(1, 3) = 2
  /\ withMag[3].vmag = withMag[2].vmag
  /\ primaryId(withMag[2]) = 0
  /\ maxPrimaryId(1, 3) = 2
  /\ bsc2fk5[withMag[2].bscNum] = 2

(***************************************************************************)
(* The two loops of the bright-star parser on lines with a Bayer letter, a *)
(* magnitude around the limits, and a primary id that may have no record.  *)
(***************************************************************************)
MergeBSCLines ==
  [bscNum : {1, 8},
   name : {BlankName} \cup {<< "", g, "", "And" >> : g \in {"Eps", "Eta", "The", "Nu", "Xi"}},
   fk5 : {<<>>, <<1>>}, hd : {<<2>>},
   vmag : {<<590>>, <<600>>, <<640>>, <<650>>, <<660>>}, pos : {1}]

readMergeBSC ==
  readLine /\ \E l \in MergeBSCLines : freshBSC(l) /\ scanBSCLine(l)

NextMerge ==
  \/ readFewCrossIndex
  \/ endCrossIndex
  \/ readMergeBSC
  \/ endScanBSC
  \/ mergeBSCLine
  \/ endMergeBSC

SpecMerge == Init /\ [][NextMerge]_vars

\* a step of the second loop, and the line it is at
mergeStep == pc = "processYaleBrightStarCatalog:merge" /\ lineNo' = lineNo + 1
mergedLine == bscLines[lineNo + 1]

\* the line is not skipped as a duplicate or for want of a magnitude
considered(l) == l.bscNum \in DOMAIN bsc2fk5 /\ l.vmag # <<>>

\* the primary id the second loop resolves for the line
resolvedId(l) == IF l.fk5 = <<>> THEN bsc2fk5[l.bscNum] ELSE primaryId(l)

\* the Bayer rank of the line, 0 when it has none
rankOf(l) ==
  LET letter == toLowerCase(l.name[2])
      at == {i \in 1..Len(bayerRanks) : bayerRanks[i] = letter}
  IN  IF at = {} THEN 0 ELSE CHOOSE i \in at : TRUE

\* the step creates a registry record
created == newKeys # {}

\* the lines the claims on the thresholds are about
unlistedAlone(l) ==
  considered(l) /\ resolvedId(l) = 0 /\ l.bscNum \notin bscExtras

\* C8 as stated: a line with no primary id and not on the legacy list with
\* rank 5 is excluded at magnitude 6.4 and included at 5.9, and the rank rule
\* accepts nothing above 6.0 in the first 6 ranks nor in the first 12
C8_AsStated ==
  [][mergeStep /\ unlistedAlone(mergedLine) =>
       LET vmag == mergedLine.vmag[1]
           rank == rankOf(mergedLine)
       IN  /\ rank = 5 /\ vmag = 640 => ~created
           /\ rank = 5 /\ vmag = 590 => created
           /\ rank \in 1..12 /\ vmag > 600 => ~created]_vars

\* C8: a line with no primary id and not on the legacy list with rank 5 is
\* included at magnitude 6.4 and at 5.9 and excluded at 6.6; the rank rule
\* accepts the ranks 1 to 7 up to magnitude 6.5 and the ranks 1 to 13 up to
\* 6.0, and a line the rank rule does not accept is included up to 6.0 only
C8_Thresholds ==
  [][mergeStep /\ unlistedAlone(mergedLine) =>
       LET vmag == mergedLine.vmag[1]
           rank == rankOf(mergedLine)
       IN  /\ rank = 5 /\ vmag \in {590, 640} => created
           /\ rank = 5 /\ vmag = 660 => ~created
           /\ rank \in 1..7 /\ vmag <= 650 => created
           /\ rank \in 1..13 /\ vmag <= 600 => created
           /\ vmag <= 600 => created
           /\ rank \notin 1..7 /\ vmag > 600 => ~created
           /\ vmag > 650 => ~created]_vars

\* the line just merged had rank 5, magnitude 6.4, no primary id, and got a
\* record of its own
C8_Witness ==
  /\ pc = "processYaleBrightStarCatalog:merge"
  /\ lineNo >= 1
  /\ LET l == bscLines[lineNo]
     IN  /\ l.bscNum = 1 /\ l.fk5 = <<>> /\ l.vmag = <<640>>
         /\ rankOf(l) = 5
         /\ 1 \in DOMAIN bscIndex
         /\ bscIndex[1] > highestFK5
         /\ fk5Index[bscIndex[1]].vmag = 640

\* the resolved primary id of the line is in the range of the primary catalog
\* and has no record
dangling(l) ==
  /\ considered(l)
  /\ resolvedId(l) # 0
  /\ resolvedId(l) <= highestFK5
  /\ resolvedId(l) \notin DOMAIN fk5Index

\* the magnitude, legacy-list and Bayer-rank criteria
meetsCriteria(l) ==
  \/ l.vmag[1] <= 600
  \/ l.bscNum \in bscExtras
  \/ rankOf(l) \in 1..7 /\ l.vmag[1] <= 650

\* C9 as stated: a line whose primary id is in range and has no record leaves
\* the registry, bscIndex and hd2bsc as they are, and the run goes on
C9_AsStated ==
  [][mergeStep /\ dangling(mergedLine) =>
       /\ UNCHANGED << fk5Index, bscIndex, hd2bsc >>
       /\ pc' = pc]_vars

\* C9: a line whose primary id is in range and has no record is handled as a
\* line without a primary id: when it meets the criteria it gets a record of
\* its own under the next key and is entered in bscIndex and hd2bsc, when it
\* does not the registry, bscIndex and hd2bsc stay as they are; the run goes on
C9_DanglingId ==
  [][mergeStep /\ dangling(mergedLine) =>
       LET l == mergedLine
           key == highestFK5 + addedStars + 1
       IN  /\ pc' = pc
           /\ IF meetsCriteria(l)
                THEN /\ newKeys = {key}
                     /\ \A k \in DOMAIN fk5Index : fk5Index'[k] = fk5Index[k]
                     /\ fk5Index'[key].bscNum = l.bscNum
                     /\ l.bscNum \in DOMAIN bscIndex' /\ bscIndex'[l.bscNum] = key
                     /\ l.hd[1] \in DOMAIN hd2bsc' /\ hd2bsc'[l.hd[1]] = l.bscNum
                ELSE UNCHANGED << fk5Index, bscIndex, hd2bsc >>]_vars

\* the line just merged named the primary id 1, which is in range without a
\* record, and got a record of its own
C9_Witness ==
  /\ pc = "processYaleBrightStarCatalog:merge"
  /\ lineNo >= 1
  /\ highestFK5 = 2 /\ 1 \notin DOMAIN fk5Index
  /\ LET l == bscLines[lineNo]
     IN  /\ l.fk5 = <<1>>
         /\ l.bscNum \in DOMAIN bscIndex
         /\ bscIndex[l.bscNum] = highestFK5 + addedStars
         /\ fk5Index[bscIndex[l.bscNum]].bscNum = l.bscNum

(***************************************************************************)
(* The astrometry stage on rows that match a star of the primary catalog,  *)
(* a star of the bright-star catalog, or none.  The row just read is kept  *)
(* in line.                                                                *)
(***************************************************************************)
\* one more line of the running source text, kept in line
readKeptLine(l) ==
  /\ linesRead < MaxLines
  /\ linesRead' = linesRead + 1
  /\ line' = l

MatchFK5Lines ==
  [fk5Num : {<<1>>}, hd : {<<1>>}, vmag : {<<300>>}, pos : {1}, bf : {""},
   sub : {<<>>}, con : {""}, name : {<<>>}]

MatchBSCLines ==
  [bscNum : {1}, name : {BlankName}, fk5 : {<<>>}, hd : {<<2>>},
   vmag : {<<500>>}, pos : {1}]

MatchHIPLines ==
  [data : {TRUE}, hip : {<<7>>}, hd : {<<>>, <<1>>, <<2>>},
   vmag : {<<200>>, <<400>>, <<700>>}, pos : {<<2>>, <<3>>}]

readMatchCrossIndex ==
  readLine /\ \E l \in MatchFK5Lines : freshFK5(l) /\ processCrossIndexLine(l)
readMatchBSC ==
  readLine /\ \E l \in MatchBSCLines : freshBSC(l) /\ scanBSCLine(l)
readKeptHipparcos ==
  \E r \in MatchHIPLines : readKeptLine(r) /\ processHipparcosLine(r)

NextHip ==
  \/ readMatchCrossIndex
  \/ endCrossIndex
  \/ readMatchBSC
  \/ endScanBSC
  \/ mergeBSCLine
  \/ endMergeBSC
  \/ endNotes
  \/ readKeptHipparcos
  \/ endHipparcos

SpecHip == Init /\ [][NextHip]_vars

\* a step of the astrometry loop on a row with all its fields
hipStep ==
  /\ pc = "processHipparcosStarCatalog"
  /\ linesRead' = linesRead + 1

\* the key of the record the row matches through its HD number, by the
\* primary table first and the bright-star table next; 0 when it matches none
matchedKey(r) ==
  LET hd == IF r.hd = <<>> THEN 0 ELSE r.hd[1]
  IN  IF hd > 0 /\ hd \in DOMAIN hd2fk5 THEN hd2fk5[hd]
      ELSE IF hd > 0 /\ hd \in DOMAIN hd2bsc THEN bscIndex[hd2bsc[hd]]
      ELSE 0

\* C11: a row of the astrometry stage never raises the magnitude of a record
\* that is in the registry, and the record it matches gets the minimum of its
\* magnitude and the magnitude of the row
C11_MagnitudeNeverDims ==
  [][hipStep =>
       LET r == line'
           k == matchedKey(r)
       IN  /\ \A j \in DOMAIN fk5Index :
                /\ j \in DOMAIN fk5Index'
                /\ fk5Index'[j].vmag <= fk5Index[j].vmag
                /\ j # k => fk5Index'[j].vmag = fk5Index[j].vmag
           /\ k # 0 =>
                fk5Index'[k].vmag =
                  (IF r.vmag[1] < fk5Index[k].vmag THEN r.vmag[1]
                   ELSE fk5Index[k].vmag)]_vars

\* the row last read was fainter than the bright-star record it matched, and
\* the record kept its magnitude
C11_Witness ==
  /\ pc = "processHipparcosStarCatalog"
  /\ line # <<>>
  /\ line.hd = <<2>> /\ line.vmag = <<700>>
  /\ 1 \in DOMAIN bscIndex
  /\ fk5Index[bscIndex[1]].vmag = 500
  /\ fk5Index[bscIndex[1]].pos.cat = "HIP"

\* C12: the record a row matches gets the position and proper motion of the
\* row whatever the magnitudes are, and no other record of the registry
\* changes its position, so that a matched record ends with those of the last
\* row that matched it
C12_PositionReplaced ==
  [][hipStep =>
       LET r == line'
           k == matchedKey(r)
       IN  /\ \A j \in DOMAIN fk5Index :
                j # k => j \in DOMAIN fk5Index' /\ fk5Index'[j].pos = fk5Index[j].pos
           /\ k # 0 => fk5Index'[k].pos = [cat |-> "HIP", v |-> r.pos[1]]]_vars

\* a second row matched the primary record, fainter than the record, and the
\* record has the position of that row
C12_Witness ==
  /\ pc = "processHipparcosStarCatalog"
  /\ linesRead >= 3
  /\ line # <<>>
  /\ line.hd = <<1>> /\ line.vmag = <<400>> /\ line.pos = <<3>>
  /\ fk5Index[1].vmag = 200
  /\ fk5Index[1].pos = [cat |-> "HIP", v |-> 3]

(***************************************************************************)
(* The notes stage after a bright-star text that holds duplicates.  The    *)
(* notes line just read is kept in line.                                   *)
(***************************************************************************)
NamedBSCLines ==
  [bscNum : {1, 2}, name : {EpsAnd}, fk5 : {<<>>, <<1>>}, hd : {<<>>},
   vmag : {<<300>>, <<450>>}, pos : {1}]

KeptNotesLines ==
  [bscNum : {1, 2, 3}, code : {"1N:", "1D:"},
   text : {<< "A", "B", "." >>, << "a", "b", "." >>}]

readNamedBSC ==
  readLine /\ \E l \in NamedBSCLines : freshBSC(l) /\ scanBSCLine(l)
readKeptNotes ==
  \E l \in KeptNotesLines : readKeptLine(l) /\ processNotesLine(l)

NextNotes ==
  \/ readFewCrossIndex
  \/ endCrossIndex
  \/ readNamedBSC
  \/ endScanBSC
  \/ mergeBSCLine
  \/ endMergeBSC
  \/ readKeptNotes
  \/ endNotes

SpecNotes == Init /\ [][NextNotes]_vars

\* a step of the notes loop on a line
notesStep ==
  /\ pc = "processYaleBrightStarCatalogNotes"
  /\ linesRead' = linesRead + 1

\* the entry of the bright-star id of the line in bsc2fk5, 0 when it has none
notesEntry(l) ==
  IF l.bscNum \in DOMAIN bsc2fk5 THEN bsc2fk5[l.bscNum] ELSE 0

\* C13: a notes line changes the registry only if its code is '1N:' and its
\* id has a non-zero entry in bsc2fk5; a line whose id has a zero entry or
\* none leaves the registry as it is and the run goes on; the name of a line
\* that is processed replaces the name of the record
C13_NotesLines ==
  [][notesStep =>
       LET l == line'
       IN  /\ pc' = pc
           /\ fk5Index' # fk5Index => l.code = "1N:" /\ notesEntry(l) # 0
           /\ notesEntry(l) = 0 => fk5Index' = fk5Index
           /\ fk5Index' # fk5Index =>
                fk5Index'[notesEntry(l)].name = << "A", "b" >>]_vars

(***************************************************************************)
(* Designations: lines of the primary catalog with a Flamsteed number, a   *)
(* Bayer letter, an unknown letter or none, and lines of the bright-star   *)
(* catalog with a name field, with known and unknown constellations.       *)
(***************************************************************************)
DesigFK5Lines ==
  [fk5Num : {<<1>>}, hd : {<<>>}, vmag : {<<300>>}, pos : {1},
   bf : {"", "7", "Alp", "xyz"}, sub : {<<>>, <<2>>},
   con : {"And", "Pet", "zzz", ""}, name : {<<>>}]

DesigBSCLines ==
  [bscNum : {1},
   name : {BlankName, << "21", "Alp", "", "And" >>, << "7", "", "", "And" >>,
           << "", "Alp", "", "zzz" >>},
   fk5 : {<<>>, <<1>>}, hd : {<<>>}, vmag : {<<500>>}, pos : {1}]

readDesigCrossIndex ==
  readLine /\ \E l \in DesigFK5Lines : freshFK5(l) /\ processCrossIndexLine(l)
readDesigBSC ==
  readLine /\ \E l \in DesigBSCLines : freshBSC(l) /\ scanBSCLine(l)

NextDesig ==
  \/ readDesigCrossIndex
  \/ endCrossIndex
  \/ readDesigBSC
  \/ endScanBSC
  \/ mergeBSCLine
  \/ endMergeBSC
  \/ endNotes
  \/ readHipparcos
  \/ endHipparcos
  \/ endNgcNames
  \/ endNgcData

SpecDesig == Init /\ [][NextDesig]_vars

\* the keys of the records that are not deep-sky objects
starKeys == {k \in DOMAIN fk5Index : origin(fk5Index[k]) # "deep-sky"}

flamsteedOf(star) == Get(star, "flamsteed", 0)
bayerRankOf(star) == Get(star, "bayerRank", 0)
subIndexOf(star) == Get(star, "subIndex", 0)
constellationOf(star) == Get(star, "constellation", 0)

noDesignation(star) ==
  flamsteedOf(star) = 0 /\ bayerRankOf(star) = 0 /\ subIndexOf(star) = 0

sourceFails ==
  /\ pc \in {"processCrossIndex", "processYaleBrightStarCatalogNotes",
             "processHipparcosStarCatalog", "processNgcNames"}
  /\ abortRun
  /\ UNCHANGED << line, linesRead >>

\* the file after a failure: the open has failed and there is no file, or the
\* file is open with the first n items in it
failedFile(full, n) ==
  IF n < 0 THEN noOutput
  ELSE [items |-> SubSeq(full.items, 1, n),
        total |-> Cardinality({p \in 1..n : full.items[p].item = "star"}),
        missingFK5 |-> Cardinality({p \in 1..n : full.items[p].item = "0xFF"}),
        file |-> "open"]

\* lines 596-684 and 728-731: the open, a write or the close throws
writeFails ==
  /\ pc = "writeStarCatalog"
  /\ \E n \in (-1)..Len(writeFrom(1, noOutput).items) :
       output' = failedFile(writeFrom(1, noOutput), n)
  /\ pc' = "exit(1)"
  /\ UNCHANGED << line, linesRead, lineNo, tables, counters, pleiades, bscLines, scan >>

NextIO ==
  \/ readCrossIndex
  \/ endCrossIndex
  \/ endScanBSC
  \/ endMergeBSC
  \/ endNotes
  \/ endHipparcos
  \/ endNgcNames
  \/ endNgcData
  \/ sourceFails
  \/ writeStarCatalog
  \/ writeFails

SpecIO == Init /\ [][NextIO]_vars

\* C15: a run that has ended with exit status 1 has left no catalog file
C15_NoPartialFile ==
  pc = "exit(1)" => output.file = "none" /\ output.items = <<>>


(***************************************************************************)
(* Lines that a parser has to cope with: notes lines for bright-star ids   *)
(* the catalog did not give, and rows of the deep-sky data table that are  *)
(* cut short, so that split('|') yields fewer than five parts.             *)
(***************************************************************************)
ParseNameLines ==
  [divider : {TRUE, FALSE}, id : {<< [ic |-> FALSE, num |-> <<1>>] >>},
   name : {<< "M", " ", "1" >>, << "A", "b" >>}]

ShortNGCDataLines ==
  [divider : {TRUE, FALSE},
   id : {<< [ic |-> FALSE, num |-> <<1>>] >>, << [ic |-> FALSE, num |-> <<2>>] >>},
   vmag : {<<>>, <<500>>}, pos : {<<3>>}, con : {"And"}, short : {FALSE}]
  \cup
  [divider : {FALSE},
   id : {<< [ic |-> FALSE, num |-> <<1>>] >>, << [ic |-> FALSE, num |-> <<2>>] >>},
   vmag : {<<>>}, pos : {<<>>}, con : {""}, short : {TRUE}]

readParseNgcNames ==
  \E l \in ParseNameLines :
    /\ IF l.divider THEN UNCHANGED << line, linesRead >> ELSE readLine
    /\ processNgcNamesLine(l)
readShortNgcData ==
  \E l \in ShortNGCDataLines :
    /\ IF l.divider THEN UNCHANGED << line, linesRead >> ELSE readLine
    /\ processNgcDataLine(l)

NextParse ==
  \/ readFewCrossIndex
  \/ endCrossIndex
  \/ readNamedBSC
  \/ endScanBSC
  \/ mergeBSCLine
  \/ endMergeBSC
  \/ readKeptNotes
  \/ endNotes
  \/ endHipparcos
  \/ readParseNgcNames
  \/ skipNgcHeaderRow
  \/ endNgcNames
  \/ readShortNgcData
  \/ endNgcData

SpecParse == Init /\ [][NextParse]_vars

parserStages ==
  {"processCrossIndex", "processYaleBrightStarCatalog",
   "processYaleBrightStarCatalog:merge", "processYaleBrightStarCatalogNotes",
   "processHipparcosStarCatalog", "processNgcNames", "processNgcData"}

\* C16: no line makes a parser end the run: a step of a parsing stage never
\* leads to exit status 1
C16_NoParserAborts ==
  [][(pc \in parserStages) => pc' # "exit(1)"]_vars


(***************************************************************************)
(* Which stage writes on records that are already in the registry.  The    *)
(* primary source may here give an id on more than one line.               *)
(***************************************************************************)
RepeatFK5Lines ==
  [fk5Num : {<<1>>, <<2>>}, hd : {<<1>>}, vmag : {<<300>>, <<400>>}, pos : {1},
   bf : {""}, sub : {<<>>}, con : {""}, name : {<<>>}]

FrameBSCLines ==
  [bscNum : {1, 2}, name : {BlankName, << "21", "Alp", "", "And" >>},
   fk5 : {<<>>, <<1>>}, hd : {<<>>, <<2>>}, vmag : {<<500>>}, pos : {1}]

readRepeatCrossIndex ==
  \E l \in RepeatFK5Lines : readKeptLine(l) /\ processCrossIndexLine(l)
readFrameBSC ==
  readLine /\ \E l \in FrameBSCLines : freshBSC(l) /\ scanBSCLine(l)
readFrameHipparcos ==
  readLine /\ \E r \in MatchHIPLines : processHipparcosLine(r)

NextFrame ==
  \/ readRepeatCrossIndex
  \/ endCrossIndex
  \/ readFrameBSC
  \/ endScanBSC
  \/ mergeBSCLine
  \/ endMergeBSC
  \/ readNotes
  \/ endNotes
  \/ readFrameHipparcos
  \/ endHipparcos
  \/ readNgcNames
  \/ endNgcNames
  \/ readNgcData
  \/ endNgcData

SpecFrame == Init /\ [][NextFrame]_vars

\* two records agree on every field outside the given ones
sameExcept(a, b, fields) ==
  \A f \in ((DOMAIN a) \cup (DOMAIN b)) \ fields :
    f \in DOMAIN a /\ f \in DOMAIN b /\ a[f] = b[f]

\* the step leaves the records outside keys as they are, and changes the
\* records of keys in the given fields only
overwritesOnly(keys, fields) ==
  \A k \in DOMAIN fk5Index :
    /\ k \in DOMAIN fk5Index'
    /\ sameExcept(fk5Index[k], fk5Index'[k], IF k \in keys THEN fields ELSE {})

\* C17 as stated: only a step of the astrometry stage changes a record that
\* is in the registry
C17_AsStated ==
  [][(pc # "processHipparcosStarCatalog") => overwritesOnly({}, {})]_vars

designationFields == {"bscNum", "flamsteed", "bayerRank", "subIndex", "constellation"}

\* C17: no step removes a record; the deep-sky stages leave every record
\* that is there as it is; the primary loader replaces a record only with
\* the record of a later line of the same id; the bright-star merger writes
\* on a record that is there only the bright-star id and the designation,
\* the annotator only the name, the astrometry stage only magnitude and
\* position
C17_Overwrites ==
  [][/\ \A k \in DOMAIN fk5Index : k \in DOMAIN fk5Index'
     /\ pc \in {"processNgcNames", "processNgcData", "writeStarCatalog",
                "processYaleBrightStarCatalog"}
          => overwritesOnly({}, {})
     /\ (pc = "processCrossIndex" /\ linesRead' # linesRead)
          => overwritesOnly({toNumber(line'.fk5Num)},
                            DOMAIN fk5Index'[toNumber(line'.fk5Num)])
     /\ pc = "processYaleBrightStarCatalog:merge"
          => overwritesOnly(DOMAIN fk5Index, designationFields)
     /\ pc = "processYaleBrightStarCatalogNotes"
          => overwritesOnly(DOMAIN fk5Index, {"name"})
     /\ pc = "processHipparcosStarCatalog"
          => overwritesOnly(DOMAIN fk5Index, {"vmag", "pos"})]_vars


\* a primary record that the bright-star merger, the annotator and the
\* astrometry stage have written on
C17_Witness ==
  /\ pc = "processNgcNames"
  /\ 1 \in DOMAIN fk5Index
  /\ Get(fk5Index[1], "fk5Num", 0) = 1
  /\ Get(fk5Index[1], "bscNum", 0) > 0
  /\ Get(fk5Index[1], "flamsteed", 0) = 21
  /\ Get(fk5Index[1], "name", <<>>) = << "A", "b" >>
  /\ fk5Index[1].pos.cat = "HIP"


(***************************************************************************)
(* What the records of the three later blocks satisfy: the whole run on    *)
(* bright-star lines around the magnitude limits, astrometry rows on both  *)
(* sides of magLimitHipparcos, and deep-sky rows with and without a name.  *)
(***************************************************************************)
QualBSCLines ==
  [bscNum : {1, 8}, name : {BlankName, EpsAnd, << "", "Nu", "", "And" >>},
   fk5 : {<<>>}, hd : {<<2>>}, vmag : {<<600>>, <<640>>, <<660>>}, pos : {1}]

readQualBSC ==
  readLine /\ \E l \in QualBSCLines : freshBSC(l) /\ scanBSCLine(l)

NextQual ==
  \/ readCrossIndex
  \/ endCrossIndex
  \/ readQualBSC
  \/ endScanBSC
  \/ mergeBSCLine
  \/ endMergeBSC
  \/ endNotes
  \/ readFrameHipparcos
  \/ endHipparcos
  \/ readNgcNames
  \/ endNgcNames
  \/ readNgcData
  \/ endNgcData

SpecQual == Init /\ [][NextQual]_vars

\* the record is the cluster entry appended after the astrometry rows
isCluster(star) == Has(star, "messierNum") /\ ~Has(star, "ngcIcNum")

\* the record meets the rule of the stage that added it
qualifies(star) ==
  LET o == origin(star)
      rank == Get(star, "bayerRank", 0)
  IN  /\ o = "bright-star" =>
           \/ star.vmag <= magLimitBSC
           \/ Get(star, "bscNum", 0) \in bscExtras
           \/ rank > 0 /\ rank < 14 /\ star.vmag <= 600
           \/ rank > 0 /\ rank < 8 /\ star.vmag <= 650
      /\ o = "astrometry" => star.vmag <= magLimitHipparcos
      /\ (o = "deep-sky" /\ ~isCluster(star)) =>
           star.ngcIcNum \in DOMAIN ngcs \/ star.vmag <= NgcMagLimit

\* C18: at every moment of the run every record of the registry meets the
\* rule of the stage that added it
C18_Qualified ==
  \A k \in DOMAIN fk5Index : qualifies(fk5Index[k])

\* after the deep-sky data: a bright-star record above magLimitBSC that
\* an astrometry row has written on, an astrometry record, and a deep-sky
\* record without a name
C18_Witness ==
  /\ AfterStages
  /\ \E k \in DOMAIN fk5Index :
       /\ origin(fk5Index[k]) = "bright-star"
       /\ fk5Index[k].vmag > magLimitBSC
       /\ fk5Index[k].pos.cat = "HIP"
  /\ \E k \in DOMAIN fk5Index :
       /\ origin(fk5Index[k]) = "astrometry"
  /\ \E k \in DOMAIN fk5Index :
       /\ origin(fk5Index[k]) = "deep-sky"
       /\ ~isCluster(fk5Index[k])
       /\ fk5Index[k].ngcIcNum \notin DOMAIN ngcs


(***************************************************************************)
(* The order of the stages in main.                                        *)
(***************************************************************************)
\* the place of a stage in the order of main; the two loops of the
\* bright-star parser are one stage
stageRank(p) ==
  CASE p = "processCrossIndex" -> 1
    [] p \in {"processYaleBrightStarCatalog", "processYaleBrightStarCatalog:merge"} -> 2
    [] p = "processYaleBrightStarCatalogNotes" -> 3
    [] p = "processHipparcosStarCatalog" -> 4
    [] p = "processNgcNames" -> 5
    [] p = "processNgcData" -> 6
    [] p = "writeStarCatalog" -> 7
    [] OTHER -> 8

\* C20: the run starts with the primary loader; a stage is followed by the
\* next stage of the order and by no other, unless the run ends with exit
\* status 1; the registry and the cross-reference tables change only in
\* steps of stages 1 to 6, the file only in the step of the writer, which
\* begins when the deep-sky data stage ends
C20_StageOrder ==
  [][/\ pc' # pc =>
          \/ pc' = "exit(1)"
          \/ stageRank(pc') = stageRank(pc) + 1
          \/ pc = "processYaleBrightStarCatalog"
               /\ pc' = "processYaleBrightStarCatalog:merge"
     /\ pc' = "writeStarCatalog" => pc = "processNgcData"
     /\ tables' # tables => stageRank(pc) <= 6
     /\ output' # output => pc = "writeStarCatalog"]_vars

\* a finished run in which the primary loader, the bright-star merger, the
\* astrometry merger and the deep-sky data stage have each added a record
C20_Witness ==
  /\ pc = "done"
  /\ \A o \in {"primary", "bright-star", "astrometry", "deep-sky"} :
       \E k \in DOMAIN fk5Index : origin(fk5Index[k]) = o
  /\ output.total = Cardinality(DOMAIN fk5Index)


(***************************************************************************)
(* Two runs on the same texts.  The texts are given in advance, as the     *)
(* lines of the sources in the order main reads them, each with the number *)
(* of its source; the deep-sky data table starts with its two dividers.    *)
(* line.texts holds them, linesRead is the place in them, and line.first   *)
(* holds the result of the first run once the second has started.          *)
(***************************************************************************)
TwiceLines ==
  {[source |-> 1, text |-> l] : l \in FewFK5Lines}
    \cup {[source |-> 2, text |-> l] : l \in MatchBSCLines}
    \cup {[source |-> 4, text |-> r] : r \in {x \in HIPLines : x.hd # <<1>>}}
    \cup {[source |-> 6, text |-> l] :
            l \in {x \in NGCDataLines : ~x.divider /\ x.vmag # <<>>}}

\* the texts of a run: at most MaxLines lines, source after source, no line twice
TwiceTexts ==
  {t \in UNION {[1..n -> TwiceLines] : n \in 0..MaxLines} :
     \A i \in 1..Len(t) : \A j \in (i + 1)..Len(t) :
       t[i].source <= t[j].source /\ t[i] # t[j]}

InitTwice ==
  /\ line \in {[texts |-> t, first |-> <<>>] : t \in TwiceTexts}
  /\ Start

\* the next line of the texts is a line of the source
hasNext(source) ==
  linesRead < Len(line.texts) /\ line.texts[linesRead + 1].source = source

nextText == line.texts[linesRead + 1].text

readText(source) ==
  /\ hasNext(source)
  /\ linesRead' = linesRead + 1
  /\ UNCHANGED line

giveCrossIndex == readText(1) /\ processCrossIndexLine(nextText)
giveBSC == readText(2) /\ scanBSCLine(nextText)
\* lines 444-445: the rows after the row the loop stops at are not read
giveHipparcos ==
  /\ hasNext(4)
  /\ processHipparcosLine(nextText)
  /\ linesRead' = IF pc' = pc THEN linesRead + 1
                  ELSE Cardinality({i \in 1..Len(line.texts) : line.texts[i].source <= 4})
  /\ UNCHANGED line
giveNgcDivider ==
  /\ pc = "processNgcData"
  /\ scan.dividerCount < 2
  /\ processNgcDataLine([divider |-> TRUE])
  /\ UNCHANGED << line, linesRead >>
giveNgcData ==
  /\ pc = "processNgcData"
  /\ scan.dividerCount = 2
  /\ readText(6)
  /\ processNgcDataLine(nextText)

\* a text is exhausted when the next line is not one of its lines
endGivenCrossIndex == endCrossIndex /\ ~hasNext(1)
endGivenBSC == endScanBSC /\ ~hasNext(2)
endGivenHipparcos == endHipparcos /\ ~hasNext(4)
endGivenNgcData == endNgcData /\ scan.dividerCount = 2 /\ ~hasNext(6)

\* variant of restart: the counter of added stars keeps its value
restart_KeepsAddedStars ==
  /\ pc' = "processCrossIndex"
  /\ linesRead' = 0
  /\ lineNo' = 0
  /\ fk5Index' = Empty
  /\ hd2fk5' = Empty
  /\ bscIndex' = Empty
  /\ hd2bsc' = Empty
  /\ bsc2fk5' = Empty
  /\ ngcs' = Empty
  /\ totalBSC' = 0
  /\ totalHIP' = 0
  /\ totalDSO' = 0
  /\ highestFK5' = 0
  /\ highestBSC' = 0
  /\ highestHIP' = 0
  /\ highestStar' = 0
  /\ addedStars' = addedStars
  /\ pleiades' = <<>>
  /\ bscLines' = <<>>
  /\ scan' = scanStart
  /\ output' = noOutput

\* lines 125-146: the program is started again, its variables are initialized
restart ==
  /\ pc' = "processCrossIndex"
  /\ linesRead' = 0
  /\ lineNo' = 0
  /\ fk5Index' = Empty
  /\ hd2fk5' = Empty
  /\ bscIndex' = Empty
  /\ hd2bsc' = Empty
  /\ bsc2fk5' = Empty
  /\ ngcs' = Empty
  /\ totalBSC' = 0
  /\ totalHIP' = 0
  /\ totalDSO' = 0
  /\ highestFK5' = 0
  /\ highestBSC' = 0
  /\ highestHIP' = 0
  /\ highestStar' = 0
  /\ addedStars' = 0
  /\ pleiades' = <<>>
  /\ bscLines' = <<>>
  /\ scan' = scanStart
  /\ output' = noOutput

runOver == pc \in {"done", "exit(1)"}

\* the first run is over and its result is kept; the second run starts
runAgain ==
  /\ runOver
  /\ line.first = <<>>
  /\ line' = [line EXCEPT !.first = << [pc |-> pc, fk5Index |-> fk5Index,
                                        output |-> output] >>]
  /\ restart

NextTwice ==
  \/ giveCrossIndex
  \/ endGivenCrossIndex
  \/ giveBSC
  \/ endGivenBSC
  \/ mergeBSCLine
  \/ endMergeBSC
  \/ endNotes
  \/ giveHipparcos
  \/ endGivenHipparcos
  \/ endNgcNames
  \/ giveNgcDivider
  \/ giveNgcData
  \/ endGivenNgcData
  \/ writeStarCatalog
  \/ runAgain

SpecTwice == InitTwice /\ [][NextTwice]_vars

stopsLoop(r) == matchedKey(r) = 0 /\ r.vmag[1] > magLimitHipparcos

\* C21: at a row that matches neither table and is fainter than
\* magLimitHipparcos the astrometry loop ends: the row adds and changes
\* nothing, the stage is over, and once it is over no row is read and the
\* registry and the counters of the stage stay as they are
C21_StopsAtFaintRow ==
  [][/\ (hipStep /\ stopsLoop(line')) =>
          /\ pc' = "processNgcNames"
          /\ fk5Index' = IF pleiades = <<>> THEN fk5Index
                         ELSE Put(fk5Index, nextDeepSkyKey, pleiades[1])
          /\ UNCHANGED << totalHIP, highestHIP, highestStar, addedStars >>
     /\ pc = "processNgcNames" =>
          /\ linesRead' = linesRead
          /\ UNCHANGED << fk5Index, totalHIP, highestHIP, highestStar, addedStars >>]_vars

\* the loop has stopped at the second row, after a row that added a star,
\* with room for more rows in the text
C21_Witness ==
  /\ pc = "processNgcNames"
  /\ line # <<>>
  /\ line.hd = <<>> /\ line.vmag = <<700>>
  /\ totalHIP = 1
  /\ linesRead < MaxLines


(***************************************************************************)
(* Astrometry rows whose HD number is in both cross-reference tables: the  *)
(* bright-star line may carry the HD number of the primary line and still  *)
(* get a record of its own.                                                *)
(***************************************************************************)
SharedHDBSCLines ==
  [bscNum : {1}, name : {BlankName}, fk5 : {<<>>}, hd : {<<1>>, <<2>>},
   vmag : {<<500>>}, pos : {1}]

readSharedHDBSC ==
  readLine /\ \E l \in SharedHDBSCLines : freshBSC(l) /\ scanBSCLine(l)

NextShared ==
  \/ readMatchCrossIndex
  \/ endCrossIndex
  \/ readSharedHDBSC
  \/ endScanBSC
  \/ mergeBSCLine
  \/ endMergeBSC
  \/ endNotes
  \/ readKeptHipparcos
  \/ endHipparcos

SpecShared == Init /\ [][NextShared]_vars

\* the id a table gives for the HD number of the row, 0 when it gives none
idIn(table, r) ==
  IF r.hd # <<>> /\ r.hd[1] > 0 /\ r.hd[1] \in DOMAIN table THEN table[r.hd[1]] ELSE 0

\* the step writes the position of the row on the record of key k, leaves
\* every other record as it is and adds none
updatesOnly(k, r) ==
  /\ DOMAIN fk5Index' = DOMAIN fk5Index
  /\ fk5Index'[k].pos = [cat |-> "HIP", v |-> r.pos[1]]
  /\ \A j \in DOMAIN fk5Index : j # k => fk5Index'[j] = fk5Index[j]

\* C22: a row is resolved through the primary table when that gives a
\* non-zero id, through the bright-star table only when it does not, and a
\* record is created exactly when neither gives one and the row is not
\* fainter than magLimitHipparcos
C22_PrimaryFirst ==
  [][hipStep =>
       LET r == line'
           fk5Num == idIn(hd2fk5, r)
           bscNum == idIn(hd2bsc, r)
       IN  /\ fk5Num > 0 => updatesOnly(fk5Num, r)
           /\ (fk5Num = 0 /\ bscNum > 0) => updatesOnly(bscIndex[bscNum], r)
           /\ newKeys # {} <=>
                (fk5Num = 0 /\ bscNum = 0 /\ r.vmag[1] <= magLimitHipparcos)
           /\ newKeys # {} =>
                /\ newKeys = {highestStar + 1}
                /\ fk5Index'[highestStar + 1].hipNum = r.hip[1]
                /\ \A j \in DOMAIN fk5Index : fk5Index'[j] = fk5Index[j]]_vars

\* the HD number of the row last read is in both tables, for two records,
\* and the primary record has the position of the row while the bright-star
\* record has its own
C22_Witness ==
  /\ pc = "processHipparcosStarCatalog"
  /\ line # <<>>
  /\ line.hd = <<1>>
  /\ idIn(hd2fk5, line) = 1
  /\ idIn(hd2bsc, line) = 1
  /\ bscIndex[1] # 1
  /\ fk5Index[1].pos = [cat |-> "HIP", v |-> line.pos[1]]
  /\ fk5Index[bscIndex[1]].pos.cat = "BSC"


(***************************************************************************)
(* The entry of the Pleiades.                                              *)
(***************************************************************************)
clusterKeys == {k \in DOMAIN fk5Index : isCluster(fk5Index[k])}

\* C23: up to the end of the astrometry stage the registry holds no cluster
\* entry; from then on it holds one exactly when the primary catalog gave
\* id 139, under key highestStar + 1, with Messier number 45, the name
\* Pleiades, magnitude 1.6 and the position the primary loader read
C23_ClusterEntry ==
  /\ stageRank(pc) <= 4 => clusterKeys = {}
  /\ stageRank(pc) \in 5..7 \/ pc = "done" =>
       /\ clusterKeys # {} <=> AlcyoneFK5 \in DOMAIN fk5Index
       /\ clusterKeys \subseteq {highestStar + 1}
       /\ \A k \in clusterKeys :
            fk5Index[k] = [messierNum |-> 45,
                           name |-> << "P", "l", "e", "i", "a", "d", "e", "s" >>,
                           pos |-> [cat |-> "FK5", v |-> 1],
                           vmag |-> 160]

\* the run is over, an astrometry row has written its position on the star
\* of id 139, and the cluster entry has the position of the primary catalog
C23_Witness ==
  /\ pc = "done"
  /\ AlcyoneFK5 \in DOMAIN fk5Index
  /\ fk5Index[AlcyoneFK5].pos.cat = "HIP"
  /\ clusterKeys = {highestStar + 1}
  /\ fk5Index[highestStar + 1].pos.cat = "FK5"


(***************************************************************************)
(* The two deep-sky tables: rows of the names table with Messier numbers   *)
(* and with names for two catalog numbers, rows of the data table at and   *)
(* above magnitude 6.0 and without magnitude.  The row just read is kept   *)
(* in line.                                                                *)
(***************************************************************************)
NgcNameRows ==
  [divider : {TRUE, FALSE},
   id : {<< [ic |-> FALSE, num |-> <<1>>] >>, << [ic |-> TRUE, num |-> <<1>>] >>},
   name : {<< "M", " ", "1" >>, << "M", " ", "2" >>, << "A", "b" >>, << "C", "d" >>}]

NgcDataRows ==
  [divider : {TRUE, FALSE},
   id : {<< [ic |-> FALSE, num |-> <<1>>] >>, << [ic |-> FALSE, num |-> <<2>>] >>},
   vmag : {<<>>, <<600>>, <<610>>}, pos : {<<3>>}, con : {"And"}, short : {FALSE}]

readKeptNgcNames ==
  \E l \in NgcNameRows :
    /\ IF l.divider THEN UNCHANGED << line, linesRead >> ELSE readKeptLine(l)
    /\ processNgcNamesLine(l)
readKeptNgcData ==
  \E l \in NgcDataRows :
    /\ IF l.divider THEN UNCHANGED << line, linesRead >> ELSE readKeptLine(l)
    /\ processNgcDataLine(l)

NextNgc ==
  \/ readCrossIndex
  \/ endCrossIndex
  \/ endScanBSC
  \/ endMergeBSC
  \/ endNotes
  \/ endHipparcos
  \/ readKeptNgcNames
  \/ endNgcNames
  \/ readKeptNgcData
  \/ endNgcData

SpecNgc == Init /\ [][NextNgc]_vars

\* a step of the names loop on a row of the table
namesStep == pc = "processNgcNames" /\ linesRead' = linesRead + 1

\* the signed catalog number of a row of the sets above
rowKey(l) == IF l.id[1].ic THEN 0 - l.id[1].num[1] ELSE l.id[1].num[1]

\* the Messier number a row of NgcNameRows carries, 0 when it carries a name
rowMessier(l) ==
  IF l.name = << "M", " ", "1" >> THEN 1
  ELSE IF l.name = << "M", " ", "2" >> THEN 2
  ELSE 0

\* C24: the Messier number stored for a key is the first non-zero one of
\* its rows: a row never changes a stored non-zero number, a number replaces
\* a stored 0 or none, and no row of the table ends the run
C24_FirstMessier ==
  [][namesStep =>
       LET l == line'
           k == rowKey(l)
           before == IF k \in DOMAIN ngcs THEN ngcs[k].messierNum ELSE 0
       IN  /\ pc' = pc
           /\ k \in DOMAIN ngcs'
           /\ ngcs'[k].messierNum = IF before # 0 THEN before ELSE rowMessier(l)
           /\ \A j \in DOMAIN ngcs : j # k => ngcs'[j] = ngcs[j]]_vars

\* the row M 2 was read for a key that had Messier number 1, and the key
\* still has it
C24_Witness ==
  /\ pc = "processNgcNames"
  /\ line # <<>>
  /\ line.name = << "M", " ", "2" >>
  /\ rowKey(line) \in DOMAIN ngcs
  /\ ngcs[rowKey(line)].messierNum = 1


\* the pieces of a text between its '/' characters, as split('/') gives them
RECURSIVE split(_)
split(s) ==
  LET at == {i \in 1..Len(s) : s[i] = "/"}
  IN  IF at = {} THEN << s >>
      ELSE LET i == CHOOSE x \in at : \A y \in at : x <= y
           IN  << SubSeq(s, 1, i - 1) >> \o split(SubSeq(s, i + 1, Len(s)))

\* the names joined in a stored name; none when nothing is stored
segments(name) == IF name = <<>> THEN <<>> ELSE split(name)

\* the name a row of NgcNameRows carries, <<>> when it carries a Messier number
rowName(l) == IF rowMessier(l) # 0 THEN <<>> ELSE l.name

dataStep == pc = "processNgcData" /\ linesRead' = linesRead + 1

\* the magnitude of a row in hundredths, 1000.0 when the field is blank
rowMag(l) == IF l.vmag = <<>> THEN 100000 ELSE l.vmag[1]

\* C26: a row of the data table adds a record exactly when its catalog
\* number has a name-info entry or its magnitude is at most 6.0, a blank
\* magnitude counting as 1000; the record goes under the key after the last
\* deep-sky key and has the name and Messier number of the entry, or no name
\* and Messier number 0
C26_DataRows ==
  [][dataStep =>
       LET l == line'
           k == rowKey(l)
           named == k \in DOMAIN ngcs
           key == highestStar + totalDSO + 1
       IN  /\ newKeys # {} <=> (named \/ rowMag(l) <= 600)
           /\ \A j \in DOMAIN fk5Index :
                j \in DOMAIN fk5Index' /\ fk5Index'[j] = fk5Index[j]
           /\ newKeys = {} => totalDSO' = totalDSO
           /\ newKeys # {} =>
                /\ newKeys = {key}
                /\ totalDSO' = totalDSO + 1
                /\ fk5Index'[key].ngcIcNum = k
                /\ fk5Index'[key].vmag = rowMag(l)
                /\ fk5Index'[key].messierNum = IF named THEN ngcs[k].messierNum ELSE 0
                /\ fk5Index'[key].name = IF named THEN ngcs[k].name ELSE <<>>]_vars

\* after the cluster entry: a row without magnitude was kept for its name
\* entry, and the row last read, without an entry, was kept at magnitude 6.0
C26_Witness ==
  /\ pc = "processNgcData"
  /\ line # <<>>
  /\ "vmag" \in DOMAIN line
  /\ line.vmag = <<600>>
  /\ rowKey(line) \notin DOMAIN ngcs
  /\ totalDSO = 3
  /\ fk5Index[highestStar + 2].vmag = 100000
  /\ fk5Index[highestStar + 2].messierNum = 1
  /\ fk5Index[highestStar + 3].ngcIcNum = rowKey(line)
  /\ fk5Index[highestStar + 3].name = <<>>


(***************************************************************************)
(* The markers a reader of the file counts.                                *)
(***************************************************************************)
\* the number of 0xFE bytes in the file before the item at place p
markersAhead(p) == Cardinality({q \in 1..(p - 1) : isMarker(output.items[q])})

\* the category of the block a key lies in: 0 primary, 1 bright-star,
\* 2 astrometry, 3 deep-sky, the blocks counted off by the numbers of stars
\* the stages added
categoryOf(k) ==
  IF k > highestFK5 + totalBSC + totalHIP THEN 3
  ELSE IF k > highestFK5 + totalBSC THEN 2
  ELSE IF k > highestFK5 THEN 1
  ELSE 0

\* C27: whether the bright-star and astrometry blocks are empty or not, the
\* number of 0xFE bytes ahead of a record is the category of its block: one
\* for the bright-star block, two for the astrometry block, three for the
\* deep-sky block
C27_MarkersPerCategory ==
  pc = "done" =>
    \A p \in 1..Len(output.items) :
      isStar(output.items[p]) =>
        markersAhead(p) = categoryOf(output.items[p].key)


(***************************************************************************)
(* The counters of the keys.                                               *)
(***************************************************************************)
\* C28: in every state of the run from the first line of the primary
\* catalog on, highestStar is highestFK5 + addedStars and addedStars is
\* totalBSC + totalHIP; highestBSC is highestFK5 + totalBSC once a
\* bright-star record was added, and highestHIP is highestStar once an
\* astrometry record was added
C28_KeyCounters ==
  /\ highestStar = highestFK5 + addedStars
  /\ addedStars = totalBSC + totalHIP
  /\ totalBSC > 0 => highestBSC = highestFK5 + totalBSC
  /\ totalHIP > 0 => highestHIP = highestStar
  /\ totalBSC = 0 => highestBSC = 0
  /\ totalHIP = 0 => highestHIP = 0

\* the deep-sky data has been read after two bright-star and one astrometry
\* additions behind a primary block with a gap
C28_Witness ==
  /\ pc = "writeStarCatalog"
  /\ highestFK5 = 2
  /\ 1 \notin DOMAIN fk5Index
  /\ totalBSC = 2
  /\ totalHIP = 1
  /\ highestStar = 5


(***************************************************************************)
(* The cross-reference tables of the bright-star ids.                      *)
(***************************************************************************)
\* C29: when the second loop of the bright-star parser is over, a non-zero
\* entry of bsc2fk5 is the key of a record of the registry, bscIndex gives
\* the same record for the id, and the record carries the id
C29_CrossReferences ==
  pc = "processYaleBrightStarCatalogNotes" =>
    \A b \in DOMAIN bsc2fk5 :
      bsc2fk5[b] # 0 =>
        /\ bsc2fk5[b] \in DOMAIN fk5Index
        /\ b \in DOMAIN bscIndex
        /\ bscIndex[b] = bsc2fk5[b]
        /\ Get(fk5Index[bsc2fk5[b]], "bscNum", 0) = b


(***************************************************************************)
(* The ids the cross-reference tables give to the astrometry merger.       *)
(***************************************************************************)
\* the stages whose records the astrometry merger may write on
catalogStages == {"primary", "bright-star"}

\* C30: for a row of the astrometry merger, a non-zero id of hd2fk5 is the
\* key of a primary record within the primary block, a non-zero id of hd2bsc
\* has a bscIndex entry for a record of the primary or the bright-star block,
\* the step does not end the run, and the only records the step changes are
\* records of these two stages
C30_ResolvedIdsHaveRecords ==
  [][hipStep =>
       LET r == line'
           fk5Num == idIn(hd2fk5, r)
           bscNum == idIn(hd2bsc, r)
       IN  /\ pc' # "exit(1)"
           /\ fk5Num > 0 =>
                /\ fk5Num \in DOMAIN fk5Index
                /\ fk5Num <= highestFK5
                /\ origin(fk5Index[fk5Num]) = "primary"
           /\ bscNum > 0 =>
                /\ bscNum \in DOMAIN bscIndex
                /\ bscIndex[bscNum] \in DOMAIN fk5Index
                /\ bscIndex[bscNum] <= highestFK5 + totalBSC
                /\ origin(fk5Index[bscIndex[bscNum]]) \in catalogStages
           /\ \A k \in DOMAIN fk5Index :
                fk5Index'[k] # fk5Index[k] => origin(fk5Index[k]) \in catalogStages]_vars

\* the HD number of the row last read is in the bright-star table only, and
\* the record added by the bright-star parser has the position of the row
C30_Witness ==
  /\ pc = "processHipparcosStarCatalog"
  /\ line # <<>>
  /\ line.hd = <<2>>
  /\ idIn(hd2fk5, line) = 0
  /\ idIn(hd2bsc, line) = 1
  /\ bscIndex[1] > highestFK5
  /\ origin(fk5Index[bscIndex[1]]) = "bright-star"
  /\ fk5Index[bscIndex[1]].pos = [cat |-> "HIP", v |-> line.pos[1]]
  /\ totalHIP > 0

====
